---- MODULE Spec2Model ----
(***************************************************************************)
(* expo-perfect-canvas: the bounded undo/redo history store, the canvas    *)
(* (session orchestrator), the drawing gesture and the zoom gesture, as    *)
(* state machines translated from the TypeScript sources.                  *)
(***************************************************************************)
EXTENDS Integers, Sequences, FiniteSets, TLC

(***************************************************************************)
(* Bounds of the model.                                                    *)
(***************************************************************************)
\* largest maxHistorySize the configuration is drawn from
MaxHistorySize == 3
\* strokes committed in one run of the canvas (each takes a new id)
MaxStrokes == 1
\* largest step count passed to undo(steps) / redo(steps)
MaxSteps == 2
MaxCanvasHistorySize == 2
MaxPoints == 2
MaxInputs == 1
MaxTicks == 1
MaxQueue == 1
TickMs == 100

(***************************************************************************)
(* JavaScript numbers, as exact rationals n/d (d > 0, lowest terms).       *)
(***************************************************************************)
Abs(i) == IF i < 0 THEN -i ELSE i

RECURSIVE Gcd(_, _)
Gcd(a, b) == IF b = 0 THEN a ELSE Gcd(b, a % b)

Rat(n, d) ==
    LET g == Gcd(Abs(n), Abs(d))
        s == IF d < 0 THEN -1 ELSE 1
    IN  [n |-> s * (n \div g), d |-> s * (d \div g)]

Int2Rat(i) == [n |-> i, d |-> 1]
RAdd(a, b) == Rat(a.n * b.d + b.n * a.d, a.d * b.d)
RSub(a, b) == Rat(a.n * b.d - b.n * a.d, a.d * b.d)
RMul(a, b) == Rat(a.n * b.n, a.d * b.d)
RDiv(a, b) == Rat(a.n * b.d, a.d * b.n)
RLt(a, b) == a.n * b.d < b.n * a.d
RLe(a, b) == a.n * b.d <= b.n * a.d
RMin(a, b) == IF RLe(a, b) THEN a ELSE b
RMax(a, b) == IF RLe(a, b) THEN b ELSE a
RAbs(a) == [n |-> Abs(a.n), d |-> a.d]

(***************************************************************************)
(* Optional numbers: a slot that holds a number, undefined or null, or is  *)
(* not there at all (a Point of two elements, a PathData without opacity). *)
(***************************************************************************)
Num(r) == [k |-> "num", v |-> r]
Undefined == [k |-> "undefined", v |-> Int2Rat(0)]
JsNull == [k |-> "null", v |-> Int2Rat(0)]
Absent == [k |-> "absent", v |-> Int2Rat(0)]

\* Point = [x, y, pressure?]
Pt(x, y, p) == [x |-> x, y |-> y, p |-> p]

(***************************************************************************)
(* JSON.parse(JSON.stringify(v)): the history store's deep clone.  An      *)
(* undefined array element is written as null; an undefined object         *)
(* property is left out; finite numbers, strings and booleans come back    *)
(* as they were.                                                           *)
(***************************************************************************)
JsonArrayElem(o) == IF o.k = "undefined" THEN JsNull ELSE o

JsonObjectProp(o) == IF o.k = "undefined" THEN Absent ELSE o

JsonPoint(pt) == [pt EXCEPT !.p = JsonArrayElem(@)]

JsonPath(path) ==
    [path EXCEPT !.points = [i \in 1..Len(@) |-> JsonPoint(@[i])],
                 !.opacity = JsonObjectProp(@)]

JsonCloneBroken(paths) == paths

JsonClone(paths) == [i \in 1..Len(paths) |-> JsonPath(paths[i])]

(***************************************************************************)
(* processPoints: fewer than two points give the empty string; otherwise   *)
(* the outline generator (perfect-freehand, external) and                  *)
(* getSvgPathFromStroke give a path description, kept abstract here.       *)
(***************************************************************************)
ProcessPoints(points) == IF Len(points) < 2 THEN "" ELSE "MQZ"

\* PathData
PathData(id, points, color, width, opacity) ==
    [id |-> id, points |-> points, svgPath |-> ProcessPoints(points),
     color |-> color, width |-> width, opacity |-> opacity, completed |-> TRUE]

(***************************************************************************)
(* State.                                                                  *)
(*   heap          the arrays of PathData alive in the JS heap, by address *)
(*                 (a reference is an address; 0 is null)                  *)
(*   history, currentIndex, maxSize   HistoryManager's fields; an entry    *)
(*                 holds the reference of its paths array.  The entry's    *)
(*                 timestamp is written and never read: it is left out.    *)
(*   arg, ret      a client of the store: the array it builds and passes   *)
(*                 in, and the value the last call returned to it          *)
(*   op            the operation that led to this state                    *)
(*   paths         PerfectCanvas' React state: the reference of the live   *)
(*                 path collection (null where there is no canvas)         *)
(*   isDrawingRef, currentPathPoints   PerfectCanvas' refs                 *)
(*   currentPathShared   the live preview's path description               *)
(*   rafPending    requestAnimationFrame callbacks scheduled, not yet run  *)
(*   nextId        the id generateId gives next (ids are taken in order)   *)
(*   strokeColor, strokeOpacity   current stroke style (the width is 8)    *)
(*   simplifyPaths, simplifyTolerance   props                              *)
(*   calls         the host callbacks the last operation delivered         *)
(* lastDrawTime and lastDrawPoint only feed the haptic feedback, which is  *)
(* an external collaborator: they are left out.                            *)
(*                                                                         *)
(* useZoomGesture (src/unnamed/part_004):                                  *)
(*   enableZoom, minScale, maxScale   configuration                        *)
(*   scale, translation               the viewport                         *)
(*   scaleAnim, translationAnim       the withTiming animation that drives *)
(*                 a shared value, <<>> when none runs                     *)
(*   savedScale .. lastCallbackTime   the hook's other shared values       *)
(*   isPinching, isPanning            the flags the draw gesture reads     *)
(*                                                                         *)
(* useDrawingGesture (src/unnamed/part_004):                               *)
(*   isDrawing, currentPath, lastPoint, lastTime, multiTouchEndTime        *)
(*                 lastPoint is <<>> for null, <<p>> for a point           *)
(*                                                                         *)
(* The surroundings:                                                       *)
(*   pointers      fingers on the surface                                  *)
(*   drawHandler, pinchHandler, panHandler   the state of each gesture     *)
(*                 handler of react-native-gesture-handler                 *)
(*   now           Date.now()                                              *)
(*   inputs        viewport inputs received so far                         *)
(*   jsQueue       calls scheduled on the React Native thread              *)
(*                 (scheduleOnRN) and not yet run                          *)
(*                                                                         *)
(* The exported functions of src/src/utils/svg.ts, called on their own:    *)
(*   fnIn          the call, [fn, args]                                    *)
(*   fnOut         what the call returned, <<>> before it is made          *)
(***************************************************************************)
VARIABLES heap, history, currentIndex, maxSize, arg, ret, op,
          paths, isDrawingRef, currentPathPoints, currentPathShared, rafPending,
          nextId, strokeColor, strokeOpacity, simplifyPaths, simplifyTolerance,
          calls,
          enableZoom, minScale, maxScale,
          scale, translation, scaleAnim, translationAnim,
          savedScale, savedTranslation, pinchFocal, pinchAnchor, lastValidFocal,
          lastScale, jumpDetectedTime, consecutiveJumps, lastCallbackTime,
          isPinching, isPanning,
          isDrawing, currentPath, lastPoint, lastTime, multiTouchEndTime,
          pointers, drawHandler, pinchHandler, panHandler, now, inputs, jsQueue,
          fnIn, fnOut

histVars == <<heap, history, currentIndex, maxSize>>
clientVars == <<arg, ret>>
\* PerfectCanvas: state, refs, shared values and props
canvasVars == <<paths, isDrawingRef, currentPathPoints, currentPathShared, rafPending,
                nextId, strokeColor, strokeOpacity, simplifyPaths, simplifyTolerance,
                calls>>
zoomConfig == <<enableZoom, minScale, maxScale>>
viewVars == <<scale, translation, scaleAnim, translationAnim>>
pinchVars == <<savedScale, savedTranslation, pinchFocal, pinchAnchor, lastValidFocal,
               lastScale, jumpDetectedTime, consecutiveJumps, lastCallbackTime>>
flagVars == <<isPinching, isPanning>>
zoomVars == <<zoomConfig, viewVars, pinchVars, flagVars>>
hookVars == <<isDrawing, currentPath, lastPoint, lastTime, multiTouchEndTime>>
envVars == <<pointers, drawHandler, pinchHandler, panHandler, now, inputs>>
fnVars == <<fnIn, fnOut>>
vars == <<histVars, clientVars, op, canvasVars, zoomVars, hookVars, envVars, jsQueue,
          fnVars>>

Vec(x, y) == [x |-> x, y |-> y]
ZeroVec == Vec(Int2Rat(0), Int2Rat(0))

\* a host callback and its arguments
Call(fn, args) == [fn |-> fn, args |-> args]

\* Date.now() when the component mounts: any instant far from 0
StartTime == 1000

NullRef == 0

\* a new array: the lowest address not in use
Alloc(h) == CHOOSE a \in 1..(Cardinality(DOMAIN h) + 1) :
                /\ a \notin DOMAIN h
                /\ \A b \in 1..(Cardinality(DOMAIN h) + 1) : b \notin DOMAIN h => a <= b

Range(f) == {f[i] : i \in DOMAIN f}

\* JSON.parse(JSON.stringify(x)) of the array at src: a new array, never src itself
CloneIntoAlias(h, src) == [heap |-> h, addr |-> src]

CloneInto(h, src) ==
    LET a == Alloc(h)
    IN  [heap |-> (a :> JsonClone(h[src])) @@ h, addr |-> a]

(***************************************************************************)
(* HistoryManager (src/src/utils/svg.ts).  A store is the record           *)
(* [heap, history, currentIndex]; currentIndex is the JS index (from 0),   *)
(* so the entry at JS index i is history[i + 1].                           *)
(***************************************************************************)
TheStore == [heap |-> heap, history |-> history, currentIndex |-> currentIndex]

\* Array.prototype.slice(0, end) for end >= 0
Slice0(seq, end) == SubSeq(seq, 1, IF end > Len(seq) THEN Len(seq) ELSE end)

HistoryPushNoTruncate(s, max, state) ==
    LET c == CloneInto(s.heap, state)
        pushed == Append(s.history, c.addr)
    IN  IF Len(pushed) > max
        THEN [heap |-> c.heap, history |-> Tail(pushed), currentIndex |-> s.currentIndex]
        ELSE [heap |-> c.heap, history |-> pushed, currentIndex |-> s.currentIndex + 1]

HistoryPushEvictNewest(s, max, state) ==
    LET kept == Slice0(s.history, s.currentIndex + 1)
        c == CloneInto(s.heap, state)
        pushed == Append(kept, c.addr)
    IN  IF Len(pushed) > max
        THEN [heap |-> c.heap, history |-> kept, currentIndex |-> s.currentIndex]
        ELSE [heap |-> c.heap, history |-> pushed, currentIndex |-> s.currentIndex + 1]

HistoryPushAlwaysAdvance(s, max, state) ==
    LET kept == Slice0(s.history, s.currentIndex + 1)
        c == CloneInto(s.heap, state)
        pushed == Append(kept, c.addr)
    IN  IF Len(pushed) > max
        THEN [heap |-> c.heap, history |-> Tail(pushed), currentIndex |-> s.currentIndex + 1]
        ELSE [heap |-> c.heap, history |-> pushed, currentIndex |-> s.currentIndex + 1]

HistoryPush(s, max, state) ==
    LET kept == Slice0(s.history, s.currentIndex + 1)
        c == CloneInto(s.heap, state)
        pushed == Append(kept, c.addr)
    IN  IF Len(pushed) > max
        THEN [heap |-> c.heap, history |-> Tail(pushed), currentIndex |-> s.currentIndex]
        ELSE [heap |-> c.heap, history |-> pushed, currentIndex |-> s.currentIndex + 1]

HistoryUndoOffByOne(s) ==
    IF s.currentIndex >= 0 /\ Len(s.history) > 0
    THEN LET i == IF s.currentIndex > 0 THEN s.currentIndex - 1 ELSE 0
             c == CloneInto(s.heap, s.history[i + 1])
         IN  [store |-> [heap |-> c.heap, history |-> s.history,
                         currentIndex |-> s.currentIndex - 1],
              ret |-> c.addr]
    ELSE [store |-> s, ret |-> NullRef]

HistoryUndo(s) ==
    IF s.currentIndex > 0
    THEN LET c == CloneInto(s.heap, s.history[s.currentIndex])
         IN  [store |-> [heap |-> c.heap, history |-> s.history,
                         currentIndex |-> s.currentIndex - 1],
              ret |-> c.addr]
    ELSE [store |-> s, ret |-> NullRef]

HistoryRedoStale(s) ==
    IF s.currentIndex < Len(s.history) - 1
    THEN LET c == CloneInto(s.heap, s.history[s.currentIndex + 1])
         IN  [store |-> [heap |-> c.heap, history |-> s.history,
                         currentIndex |-> s.currentIndex + 1],
              ret |-> c.addr]
    ELSE [store |-> s, ret |-> NullRef]

HistoryRedo(s) ==
    IF s.currentIndex < Len(s.history) - 1
    THEN LET c == CloneInto(s.heap, s.history[s.currentIndex + 2])
         IN  [store |-> [heap |-> c.heap, history |-> s.history,
                         currentIndex |-> s.currentIndex + 1],
              ret |-> c.addr]
    ELSE [store |-> s, ret |-> NullRef]

HistoryCanUndo(s) == s.currentIndex > 0

HistoryCanRedo(s) == s.currentIndex < Len(s.history) - 1

HistoryClear(s) == [heap |-> s.heap, history |-> <<>>, currentIndex |-> -1]

HistoryGetSize(s) == Len(s.history)

HistoryGetCurrentState(s) ==
    IF s.currentIndex >= 0 /\ s.currentIndex < Len(s.history)
    THEN LET c == CloneInto(s.heap, s.history[s.currentIndex + 1])
         IN  [store |-> [heap |-> c.heap, history |-> s.history,
                         currentIndex |-> s.currentIndex],
              ret |-> c.addr]
    ELSE [store |-> s, ret |-> NullRef]

(***************************************************************************)
(* A client of a HistoryManager: it builds arrays of PathData, passes them *)
(* to push, keeps what undo/redo/getCurrentState return, and may change    *)
(* in place any array it holds.                                            *)
(***************************************************************************)
SamplePath ==
    PathData(1, <<Pt(Int2Rat(0), Int2Rat(0), Absent), Pt(Int2Rat(5), Int2Rat(5), Num(Rat(1, 2)))>>,
             "black", 8, Num(Int2Rat(1)))

\* a dot as handleDrawEnd builds it: its second point is [x + 0.1, y + 0.1, undefined]
SampleDot ==
    PathData(2, <<Pt(Int2Rat(1), Int2Rat(1), Absent), Pt(Rat(11, 10), Rat(11, 10), Undefined)>>,
             "black", 8, Num(Int2Rat(1)))

SampleCollections == {<<>>, <<SamplePath>>, <<SamplePath, SampleDot>>}

ClientRefs == {arg, ret} \ {NullRef}

\* the values the store holds, oldest first
HistVals == [i \in 1..Len(history) |-> heap[history[i]]]

\* Addresses are names only.  After every operation the arrays still referenced
\* (from the store, oldest entry first, then paths, arg, ret) are renumbered
\* 1, 2, ... in that order and the others are collected.
Renumber(roots, x) ==
    IF x = NullRef THEN NullRef
    ELSE LET first == CHOOSE i \in 1..Len(roots) :
                          roots[i] = x /\ \A j \in 1..(i - 1) : roots[j] # x
         IN  Cardinality({roots[j] : j \in 1..first} \ {NullRef})

\* the state after an operation: store s, live collection p, client array a,
\* returned value r, operation o
Settle(s, p, a, r, o) ==
    LET roots == s.history \o <<p, a, r>>
        live == Range(roots) \ {NullRef}
    IN  /\ history' = [i \in 1..Len(s.history) |-> Renumber(roots, s.history[i])]
        /\ currentIndex' = s.currentIndex
        /\ paths' = Renumber(roots, p)
        /\ arg' = Renumber(roots, a)
        /\ ret' = Renumber(roots, r)
        /\ op' = o
        /\ UNCHANGED fnVars
        /\ heap' = [n \in 1..Cardinality(live) |->
                        s.heap[CHOOSE x \in live : Renumber(roots, x) = n]]
        /\ UNCHANGED maxSize

canvasRest == <<isDrawingRef, currentPathPoints, currentPathShared, rafPending,
                nextId, strokeColor, strokeOpacity, simplifyPaths, simplifyTolerance,
                calls>>

Finish(s, a, r, o) ==
    /\ Settle(s, paths, a, r, o)
    /\ UNCHANGED <<canvasRest, zoomVars, hookVars, envVars, jsQueue>>

\* PerfectCanvas before anything is drawn (props apart)
CanvasNew ==
    /\ isDrawingRef = FALSE
    /\ currentPathPoints = <<>>
    /\ currentPathShared = ""
    /\ rafPending = 0
    /\ nextId = 1
    /\ strokeColor = "black"
    /\ strokeOpacity = Num(Int2Rat(1))
    /\ calls = <<>>

\* useZoomGesture before any gesture
ZoomNew ==
    /\ scale = Int2Rat(1)
    /\ translation = ZeroVec
    /\ scaleAnim = <<>>
    /\ translationAnim = <<>>
    /\ savedScale = Int2Rat(1)
    /\ savedTranslation = ZeroVec
    /\ pinchFocal = ZeroVec
    /\ pinchAnchor = ZeroVec
    /\ lastValidFocal = ZeroVec
    /\ lastScale = Int2Rat(1)
    /\ jumpDetectedTime = 0
    /\ consecutiveJumps = 0
    /\ lastCallbackTime = 0
    /\ isPinching = FALSE
    /\ isPanning = FALSE

\* useDrawingGesture before any touch
HookNew ==
    /\ isDrawing = FALSE
    /\ currentPath = <<>>
    /\ lastPoint = <<>>
    /\ lastTime = 0
    /\ multiTouchEndTime = 0

\* no finger down, every handler at rest, nothing scheduled
EnvNew ==
    /\ pointers = 0
    /\ drawHandler = "UNDETERMINED"
    /\ pinchHandler = "UNDETERMINED"
    /\ panHandler = "UNDETERMINED"
    /\ now = StartTime
    /\ inputs = 0
    /\ jsQueue = <<>>

\* no function of svg.ts is called on its own
NoCall == [fn |-> "none", args |-> <<>>]
FnNew == fnIn = NoCall /\ fnOut = <<>>

\* PerfectCanvas props: enableZoom = false, zoomRange = [0.5, 3]
ZoomOff ==
    /\ enableZoom = FALSE
    /\ minScale = Rat(1, 2)
    /\ maxScale = Int2Rat(3)

HInit ==
    /\ heap = <<>>
    /\ history = <<>>
    /\ currentIndex = -1
    /\ maxSize \in -1..MaxHistorySize
    /\ arg = NullRef
    /\ ret = NullRef
    /\ op = "new"
    /\ paths = NullRef
    /\ CanvasNew
    /\ simplifyPaths = TRUE
    /\ simplifyTolerance = Int2Rat(1)
    /\ ZoomOff /\ ZoomNew /\ HookNew /\ EnvNew /\ FnNew

ClientMake ==
    \E v \in SampleCollections :
        LET a == Alloc(heap)
        IN  Finish([TheStore EXCEPT !.heap = (a :> v) @@ heap], a, ret, "make")

ClientMutate ==
    \E target \in ClientRefs, v \in SampleCollections :
        /\ v # heap[target]
        /\ Finish([TheStore EXCEPT !.heap = [heap EXCEPT ![target] = v]], arg, ret, "mutate")

\* which branch of push runs from store s: entries after the current one are
\* discarded, or the oldest entry is evicted, or the entry is just appended
PushLabel(s, max) ==
    IF s.currentIndex < Len(s.history) - 1 THEN "push:discard"
    ELSE IF Len(s.history) + 1 > max THEN "push:evict"
    ELSE "push"

PushOps == {"push", "push:discard", "push:evict"}

HPush ==
    \E src \in ClientRefs :
        Finish(HistoryPush(TheStore, maxSize, src), arg, ret, PushLabel(TheStore, maxSize))

HUndo ==
    LET r == HistoryUndo(TheStore)
    IN  Finish(r.store, arg, r.ret, "undo")

HRedo ==
    LET r == HistoryRedo(TheStore)
    IN  Finish(r.store, arg, r.ret, "redo")

\* undo() and, when it succeeded, redo() right after it
HUndoRedo ==
    LET u == HistoryUndo(TheStore)
        r == HistoryRedo(u.store)
    IN  /\ u.ret # NullRef
        /\ Finish(r.store, arg, r.ret, "undo;redo")

HGetCurrentState ==
    LET r == HistoryGetCurrentState(TheStore)
    IN  Finish(r.store, arg, r.ret, "getCurrentState")

HClear == Finish(HistoryClear(TheStore), arg, ret, "clear")

HNext ==
    \/ ClientMake
    \/ ClientMutate
    \/ HPush
    \/ HUndo
    \/ HRedo
    \/ HUndoRedo
    \/ HGetCurrentState
    \/ HClear

SpecHistory == HInit /\ [][HNext]_vars

(***************************************************************************)
(* Claims about the history store, checked under SpecHistory.              *)
(***************************************************************************)

\* C5: a store with maximum size N >= 0 never holds more than N entries; a push
\* keeps the entries up to the current one, appends the clone of the pushed
\* collection and, when that makes N + 1 entries, drops exactly the oldest one:
\* the store then holds the newest N of them, in push order.
C5_HistoryBounded ==
    [][/\ maxSize' >= 0 => Len(history') <= maxSize'
       /\ (op' \in PushOps /\ maxSize >= 0) =>
            \E src \in ClientRefs :
                LET all == Append(SubSeq(HistVals, 1, currentIndex + 1), JsonClone(heap[src]))
                IN  /\ Len(all) <= maxSize + 1
                    /\ HistVals' = IF Len(all) > maxSize
                                   THEN SubSeq(all, Len(all) - maxSize + 1, Len(all))
                                   ELSE all]_vars

C5_Witness ==
    /\ op = "push:evict"
    /\ maxSize = 2
    /\ Len(history) = 2
    /\ HistVals[1] # HistVals[2]

\* C6: when undo() succeeds, undo() then redo() returns a collection equal in
\* value to the store's current snapshot before the undo, and the current index
\* and the stored entries are as before the undo.
C6_UndoRedoRestores ==
    [][op' = "undo;redo" =>
            /\ ret' # NullRef
            /\ heap'[ret'] = heap[history[currentIndex + 1]]
            /\ currentIndex' = currentIndex
            /\ HistVals' = HistVals]_vars

C6_Witness ==
    /\ op = "undo;redo"
    /\ ret # NullRef
    /\ heap[ret] = JsonClone(<<SamplePath, SampleDot>>)
    /\ currentIndex = 1

\* C7 (as amended): in a store of maximum size >= 1, right after a push the
\* pushed snapshot is the last entry and the current one, redo() is a no-op, and
\* what the store holds is a suffix of (the entries up to the old current one,
\* then the pushed snapshot): no entry that was after the current one is left.
C7_PushDiscardsRedo ==
    [][(op' \in PushOps /\ maxSize >= 1) =>
            \E src \in ClientRefs :
                LET all == Append(SubSeq(HistVals, 1, currentIndex + 1), JsonClone(heap[src]))
                IN  /\ Len(history') >= 1
                    /\ currentIndex' = Len(history') - 1
                    /\ HistVals'[Len(history')] = JsonClone(heap[src])
                    /\ ~HistoryCanRedo(TheStore')
                    /\ HistoryRedo(TheStore').ret = NullRef
                    /\ \E k \in 1..Len(all) : HistVals' = SubSeq(all, k, Len(all))]_vars

C7_Witness ==
    /\ op = "push:discard"
    /\ maxSize = 3
    /\ Len(history) = 2
    /\ currentIndex = 1

\* C7 as claimed: the same for every push.  (Stated for maximum sizes >= 0, so
\* that its failure does not rest on a negative maximum size.)
C7_Original ==
    [][(op' \in PushOps /\ maxSize >= 0) =>
            \E src \in ClientRefs :
                LET all == Append(SubSeq(HistVals, 1, currentIndex + 1), JsonClone(heap[src]))
                IN  /\ Len(history') >= 1
                    /\ currentIndex' = Len(history') - 1
                    /\ HistVals'[Len(history')] = JsonClone(heap[src])
                    /\ ~HistoryCanRedo(TheStore')
                    /\ HistoryRedo(TheStore').ret = NullRef
                    /\ \E k \in 1..Len(all) : HistVals' = SubSeq(all, k, Len(all))]_vars

\* C8: no stored entry is the same array as one the client holds; changing in
\* place an array the client holds (one it passed to push, or one returned by
\* undo/redo/getCurrentState) changes no stored value; and what undo, redo and
\* getCurrentState return is the clone of the stored value at the current index.
C8_NoAliasing ==
    [][/\ Range(history') \cap {arg', ret'} = {}
       /\ op' = "mutate" => HistVals' = HistVals
       /\ (op' \in {"undo", "redo", "getCurrentState"} /\ ret' # NullRef) =>
            heap'[ret'] = JsonClone(HistVals[currentIndex' + 1])]_vars

C8_Witness ==
    /\ op = "mutate"
    /\ Len(history) >= 2
    /\ ret # NullRef
    /\ arg # NullRef
    /\ heap[ret] # heap[history[currentIndex + 1]]

\* C9: a non-empty store has 0 <= currentIndex < number of entries; an empty one
\* has currentIndex = -1.
C9_IndexInRange ==
    IF Len(history) > 0
    THEN 0 <= currentIndex /\ currentIndex < Len(history)
    ELSE currentIndex = -1

C9_Witness ==
    /\ op = "push:evict"
    /\ Len(history) = 3
    /\ currentIndex = 2

(***************************************************************************)
(* simplifyPath (src/src/utils/svg.ts): one forward pass that keeps the    *)
(* first and the last point and every interior point at distance >=        *)
(* tolerance from the point kept before it.                                *)
(***************************************************************************)
\* Math.sqrt(dx^2 + dy^2) >= tol, decided on the squares
DistGe(p, q, tol) ==
    LET dx == RSub(p.x, q.x)
        dy == RSub(p.y, q.y)
    IN  \/ RLe(tol, Int2Rat(0))
        \/ RLe(RMul(tol, tol), RAdd(RMul(dx, dx), RMul(dy, dy)))

RECURSIVE SimplifyLoop(_, _, _, _, _)
SimplifyLoop(points, i, prevPoint, simplified, tol) ==
    IF i > Len(points) - 1 THEN simplified
    ELSE IF DistGe(points[i], prevPoint, tol)
         THEN SimplifyLoop(points, i + 1, points[i], Append(simplified, points[i]), tol)
         ELSE SimplifyLoop(points, i + 1, prevPoint, simplified, tol)

\* a pass that measures each point against its predecessor in the input
\* instead of against the point retained last
SimplifyPathFromPrevious(points, tol) ==
    IF Len(points) <= 2 THEN points
    ELSE LET kept == SelectSeq([i \in 1..Len(points) |-> i],
                               LAMBDA i : \/ i = 1
                                          \/ i = Len(points)
                                          \/ DistGe(points[i], points[i - 1], tol))
         IN  [j \in 1..Len(kept) |-> points[kept[j]]]

\* a pass that forgets to push the last point
SimplifyPathNoLast(points, tol) ==
    IF Len(points) <= 2 THEN points
    ELSE SimplifyLoop(points, 2, points[1], <<points[1]>>, tol)

SimplifyPath(points, tol) ==
    IF Len(points) <= 2 THEN points
    ELSE Append(SimplifyLoop(points, 2, points[1], <<points[1]>>, tol), points[Len(points)])

(***************************************************************************)
(* PerfectCanvas (src/src/components/PerfectCanvas.tsx).  A document is    *)
(* the record [heap, history, currentIndex, paths, ret]: the history       *)
(* store, the live path collection, and what the last call of              *)
(* historyManager.undo() / redo() made by the operation returned.          *)
(***************************************************************************)
TheDoc == [heap |-> heap, history |-> history, currentIndex |-> currentIndex,
           paths |-> paths, ret |-> NullRef]

StoreOf(d) == [heap |-> d.heap, history |-> d.history, currentIndex |-> d.currentIndex]

WithStore(d, s) ==
    [d EXCEPT !.heap = s.heap, !.history = s.history, !.currentIndex = s.currentIndex]

\* a new array holding v
NewArray(h, v) == LET a == Alloc(h) IN [heap |-> (a :> v) @@ h, addr |-> a]

\* a dot whose second point is the first one again
DotPointsNoOffset(points) ==
    IF Len(points) = 1 THEN <<points[1], points[1]>> ELSE points

\* a dot made out of nothing as well
DotPointsPadsEmpty(points) ==
    IF Len(points) <= 1
    THEN LET dot == IF Len(points) = 1 THEN points[1] ELSE Pt(Int2Rat(0), Int2Rat(0), Absent)
         IN  <<dot, Pt(RAdd(dot.x, Rat(1, 10)), RAdd(dot.y, Rat(1, 10)),
                       IF dot.p.k = "absent" THEN Undefined ELSE dot.p)>>
    ELSE points

\* handleDrawEnd: a single point becomes a dot of two points
DotPoints(points) ==
    IF Len(points) = 1
    THEN LET dot == points[1]
         IN  <<dot, Pt(RAdd(dot.x, Rat(1, 10)), RAdd(dot.y, Rat(1, 10)),
                       IF dot.p.k = "absent" THEN Undefined ELSE dot.p)>>
    ELSE points

\* setPaths(prev => { newPaths = [...prev, newPath]; historyManager.push(newPaths) })
CommitPath(d, max, newPath) ==
    LET n == NewArray(d.heap, Append(d.heap[d.paths], newPath))
        s == HistoryPush([StoreOf(d) EXCEPT !.heap = n.heap], max, n.addr)
    IN  [WithStore(d, s) EXCEPT !.paths = n.addr]

\* undo(steps) that does nothing unless all the steps are available
RECURSIVE UndoStepsAllOrNothing(_, _)
UndoStepsAllOrNothing(d, steps) ==
    IF steps <= 0 THEN d
    ELSE IF d.currentIndex < steps THEN [d EXCEPT !.ret = NullRef]
    ELSE LET r == HistoryUndo(StoreOf(d))
         IN  UndoStepsAllOrNothing([WithStore(d, r.store) EXCEPT !.paths = r.ret,
                                                                  !.ret = r.ret],
                                   steps - 1)

\* undo(steps)
RECURSIVE UndoSteps(_, _)
UndoSteps(d, steps) ==
    IF steps <= 0 THEN d
    ELSE LET r == HistoryUndo(StoreOf(d))
         IN  IF r.ret # NullRef
             THEN UndoSteps([WithStore(d, r.store) EXCEPT !.paths = r.ret, !.ret = r.ret],
                            steps - 1)
             ELSE [d EXCEPT !.ret = NullRef]

\* redo(steps)
RECURSIVE RedoSteps(_, _)
RedoSteps(d, steps) ==
    IF steps <= 0 THEN d
    ELSE LET r == HistoryRedo(StoreOf(d))
         IN  IF r.ret # NullRef
             THEN RedoSteps([WithStore(d, r.store) EXCEPT !.paths = r.ret, !.ret = r.ret],
                            steps - 1)
             ELSE [d EXCEPT !.ret = NullRef]

\* clear(): setPaths([]); historyManager.push([])
ClearDoc(d, max) ==
    LET n == NewArray(d.heap, <<>>)
        m == NewArray(n.heap, <<>>)
        s == HistoryPush([StoreOf(d) EXCEPT !.heap = m.heap], max, m.addr)
    IN  [WithStore(d, s) EXCEPT !.paths = n.addr]

\* a reset that empties the collection and leaves the store alone
ResetDocKeepsStore(d) ==
    LET n == NewArray(d.heap, <<>>)
    IN  [d EXCEPT !.heap = n.heap, !.paths = n.addr]

\* reset(): setPaths([]); historyManager.clear()
ResetDoc(d) ==
    LET n == NewArray(d.heap, <<>>)
        s == HistoryClear([StoreOf(d) EXCEPT !.heap = n.heap])
    IN  [WithStore(d, s) EXCEPT !.paths = n.addr]

\* setPaths(newPaths): the caller's array becomes the live collection
SetPathsDoc(d, max, newPaths) ==
    LET s == HistoryPush(StoreOf(d), max, newPaths)
    IN  [WithStore(d, s) EXCEPT !.paths = newPaths]

StepsName(n) == CASE n = 0 -> "0" [] n = 1 -> "1" [] n = 2 -> "2" [] n = 3 -> "3" [] OTHER -> "n"

(***************************************************************************)
(* useZoomGesture (src/unnamed/part_004, lines 22-281).  Each callback of  *)
(* the hook is one operator that writes the shared values it assigns and   *)
(* gives the host callbacks it issues as calls'.  Assigning a shared value *)
(* stops the animation that drives it.                                     *)
(***************************************************************************)
CallbackThrottle == 16
FocalJumpThreshold == 40
ScaleStableEpsilon == Rat(1, 100)
JumpRecoveryMs == 200
SmallDelta == 20
AnimFrames == 2

\* Dimensions.get('window'), the default canvasWidth / canvasHeight
ScreenWidth == 400
ScreenHeight == 800

\* a clamp that forgets the upper limit
ClampLowOnly(x, lo, hi) == RMax(x, lo)

Clamp(x, lo, hi) == RMin(RMax(x, lo), hi)

\* withTiming(to): an animation that reaches `to` in AnimFrames frames
WithTiming(to) == <<[to |-> to, left |-> AnimFrames]>>

\* the world point under a screen point
WorldOf(screen, t, s) == Vec(RDiv(RSub(screen.x, t.x), s), RDiv(RSub(screen.y, t.y), s))

\* pinchGesture.onStart
PinchOnStart(focal) ==
    /\ savedScale' = scale
    /\ savedTranslation' = translation
    /\ pinchFocal' = focal
    /\ lastValidFocal' = focal
    /\ lastScale' = Int2Rat(1)
    /\ jumpDetectedTime' = 0
    /\ consecutiveJumps' = 0
    /\ pinchAnchor' = WorldOf(focal, translation, scale)
    /\ isPinching' = TRUE
    /\ calls' = <<>>
    /\ UNCHANGED <<viewVars, lastCallbackTime, isPanning>>

\* pinchGesture.onUpdate, placing the anchor with the scale before the update
PinchOnUpdateStaleScale(eScale, focal) ==
    LET newScale == Clamp(RMul(savedScale, eScale), minScale, maxScale)
        deltaX == RAbs(RSub(focal.x, lastValidFocal.x))
        deltaY == RAbs(RSub(focal.y, lastValidFocal.y))
        focalJumped == \/ RLt(Int2Rat(FocalJumpThreshold), deltaX)
                       \/ RLt(Int2Rat(FocalJumpThreshold), deltaY)
        scaleStable == RLt(RAbs(RSub(eScale, lastScale)), ScaleStableEpsilon)
        atScaleLimit == \/ newScale = minScale /\ scale = minScale
                        \/ newScale = maxScale /\ scale = maxScale
        jump == focalJumped /\ (scaleStable \/ atScaleLimit)
        recovering == ~jump /\ consecutiveJumps > 0 /\ now - jumpDetectedTime < JumpRecoveryMs
        smallDelta == RLt(deltaX, Int2Rat(SmallDelta)) /\ RLt(deltaY, Int2Rat(SmallDelta))
        accepted == ~jump /\ (recovering => smallDelta)
        used == IF accepted THEN focal ELSE lastValidFocal
        newTranslation == Vec(RSub(used.x, RMul(pinchAnchor.x, scale)),
                              RSub(used.y, RMul(pinchAnchor.y, scale)))
        notify == now - lastCallbackTime > CallbackThrottle
    IN  /\ consecutiveJumps' = IF jump THEN consecutiveJumps + 1
                               ELSE IF accepted THEN 0 ELSE consecutiveJumps
        /\ jumpDetectedTime' = IF jump THEN now ELSE jumpDetectedTime
        /\ lastValidFocal' = used
        /\ lastScale' = eScale
        /\ translation' = newTranslation
        /\ scale' = newScale
        /\ scaleAnim' = <<>>
        /\ translationAnim' = <<>>
        /\ lastCallbackTime' = IF notify THEN now ELSE lastCallbackTime
        /\ calls' = IF notify
                    THEN <<Call("onScaleChange", <<newScale>>),
                           Call("onTranslateChange", <<newTranslation>>)>>
                    ELSE <<>>
        /\ UNCHANGED <<savedScale, savedTranslation, pinchFocal, pinchAnchor, flagVars>>

\* pinchGesture.onUpdate without the test of the scale limits
PinchOnUpdateNoLimitTest(eScale, focal) ==
    LET newScale == Clamp(RMul(savedScale, eScale), minScale, maxScale)
        deltaX == RAbs(RSub(focal.x, lastValidFocal.x))
        deltaY == RAbs(RSub(focal.y, lastValidFocal.y))
        focalJumped == \/ RLt(Int2Rat(FocalJumpThreshold), deltaX)
                       \/ RLt(Int2Rat(FocalJumpThreshold), deltaY)
        scaleStable == RLt(RAbs(RSub(eScale, lastScale)), ScaleStableEpsilon)
        atScaleLimit == \/ newScale = minScale /\ scale = minScale
                        \/ newScale = maxScale /\ scale = maxScale
        jump == focalJumped /\ scaleStable
        recovering == ~jump /\ consecutiveJumps > 0 /\ now - jumpDetectedTime < JumpRecoveryMs
        smallDelta == RLt(deltaX, Int2Rat(SmallDelta)) /\ RLt(deltaY, Int2Rat(SmallDelta))
        accepted == ~jump /\ (recovering => smallDelta)
        used == IF accepted THEN focal ELSE lastValidFocal
        newTranslation == Vec(RSub(used.x, RMul(pinchAnchor.x, newScale)),
                              RSub(used.y, RMul(pinchAnchor.y, newScale)))
        notify == now - lastCallbackTime > CallbackThrottle
    IN  /\ consecutiveJumps' = IF jump THEN consecutiveJumps + 1
                               ELSE IF accepted THEN 0 ELSE consecutiveJumps
        /\ jumpDetectedTime' = IF jump THEN now ELSE jumpDetectedTime
        /\ lastValidFocal' = used
        /\ lastScale' = eScale
        /\ translation' = newTranslation
        /\ scale' = newScale
        /\ scaleAnim' = <<>>
        /\ translationAnim' = <<>>
        /\ lastCallbackTime' = IF notify THEN now ELSE lastCallbackTime
        /\ calls' = IF notify
                    THEN <<Call("onScaleChange", <<newScale>>),
                           Call("onTranslateChange", <<newTranslation>>)>>
                    ELSE <<>>
        /\ UNCHANGED <<savedScale, savedTranslation, pinchFocal, pinchAnchor, flagVars>>

\* pinchGesture.onUpdate without the conservative window after a jump
PinchOnUpdateNoRecovery(eScale, focal) ==
    LET newScale == Clamp(RMul(savedScale, eScale), minScale, maxScale)
        deltaX == RAbs(RSub(focal.x, lastValidFocal.x))
        deltaY == RAbs(RSub(focal.y, lastValidFocal.y))
        focalJumped == \/ RLt(Int2Rat(FocalJumpThreshold), deltaX)
                       \/ RLt(Int2Rat(FocalJumpThreshold), deltaY)
        scaleStable == RLt(RAbs(RSub(eScale, lastScale)), ScaleStableEpsilon)
        atScaleLimit == \/ newScale = minScale /\ scale = minScale
                        \/ newScale = maxScale /\ scale = maxScale
        jump == focalJumped /\ (scaleStable \/ atScaleLimit)
        recovering == FALSE
        smallDelta == RLt(deltaX, Int2Rat(SmallDelta)) /\ RLt(deltaY, Int2Rat(SmallDelta))
        accepted == ~jump /\ (recovering => smallDelta)
        used == IF accepted THEN focal ELSE lastValidFocal
        newTranslation == Vec(RSub(used.x, RMul(pinchAnchor.x, newScale)),
                              RSub(used.y, RMul(pinchAnchor.y, newScale)))
        notify == now - lastCallbackTime > CallbackThrottle
    IN  /\ consecutiveJumps' = IF jump THEN consecutiveJumps + 1
                               ELSE IF accepted THEN 0 ELSE consecutiveJumps
        /\ jumpDetectedTime' = IF jump THEN now ELSE jumpDetectedTime
        /\ lastValidFocal' = used
        /\ lastScale' = eScale
        /\ translation' = newTranslation
        /\ scale' = newScale
        /\ scaleAnim' = <<>>
        /\ translationAnim' = <<>>
        /\ lastCallbackTime' = IF notify THEN now ELSE lastCallbackTime
        /\ calls' = IF notify
                    THEN <<Call("onScaleChange", <<newScale>>),
                           Call("onTranslateChange", <<newTranslation>>)>>
                    ELSE <<>>
        /\ UNCHANGED <<savedScale, savedTranslation, pinchFocal, pinchAnchor, flagVars>>

\* pinchGesture.onUpdate
PinchOnUpdate(eScale, focal) ==
    LET newScale == Clamp(RMul(savedScale, eScale), minScale, maxScale)
        deltaX == RAbs(RSub(focal.x, lastValidFocal.x))
        deltaY == RAbs(RSub(focal.y, lastValidFocal.y))
        focalJumped == \/ RLt(Int2Rat(FocalJumpThreshold), deltaX)
                       \/ RLt(Int2Rat(FocalJumpThreshold), deltaY)
        scaleStable == RLt(RAbs(RSub(eScale, lastScale)), ScaleStableEpsilon)
        atScaleLimit == \/ newScale = minScale /\ scale = minScale
                        \/ newScale = maxScale /\ scale = maxScale
        jump == focalJumped /\ (scaleStable \/ atScaleLimit)
        recovering == ~jump /\ consecutiveJumps > 0 /\ now - jumpDetectedTime < JumpRecoveryMs
        smallDelta == RLt(deltaX, Int2Rat(SmallDelta)) /\ RLt(deltaY, Int2Rat(SmallDelta))
        accepted == ~jump /\ (recovering => smallDelta)
        used == IF accepted THEN focal ELSE lastValidFocal
        newTranslation == Vec(RSub(used.x, RMul(pinchAnchor.x, newScale)),
                              RSub(used.y, RMul(pinchAnchor.y, newScale)))
        notify == now - lastCallbackTime > CallbackThrottle
    IN  /\ consecutiveJumps' = IF jump THEN consecutiveJumps + 1
                               ELSE IF accepted THEN 0 ELSE consecutiveJumps
        /\ jumpDetectedTime' = IF jump THEN now ELSE jumpDetectedTime
        /\ lastValidFocal' = used
        /\ lastScale' = eScale
        /\ translation' = newTranslation
        /\ scale' = newScale
        /\ scaleAnim' = <<>>
        /\ translationAnim' = <<>>
        /\ lastCallbackTime' = IF notify THEN now ELSE lastCallbackTime
        /\ calls' = IF notify
                    THEN <<Call("onScaleChange", <<newScale>>),
                           Call("onTranslateChange", <<newTranslation>>)>>
                    ELSE <<>>
        /\ UNCHANGED <<savedScale, savedTranslation, pinchFocal, pinchAnchor, flagVars>>

\* panGesture.onStart (two pointers)
PanOnStart ==
    /\ savedTranslation' = translation
    /\ isPanning' = TRUE
    /\ calls' = <<>>
    /\ UNCHANGED <<viewVars, savedScale, pinchFocal, pinchAnchor, lastValidFocal, lastScale,
                   jumpDetectedTime, consecutiveJumps, lastCallbackTime, isPinching>>

\* panGesture.onUpdate without the test of isPinching
PanOnUpdateDuringPinch(t) ==
    LET newTranslation == Vec(RAdd(savedTranslation.x, t.x), RAdd(savedTranslation.y, t.y))
        notify == now - lastCallbackTime > CallbackThrottle
    IN  /\ translation' = newTranslation
        /\ translationAnim' = <<>>
        /\ lastCallbackTime' = IF notify THEN now ELSE lastCallbackTime
        /\ calls' = IF notify THEN <<Call("onTranslateChange", <<newTranslation>>)>>
                    ELSE <<>>
        /\ UNCHANGED <<scale, scaleAnim, savedScale, savedTranslation, pinchFocal,
                       pinchAnchor, lastValidFocal, lastScale, jumpDetectedTime,
                       consecutiveJumps, flagVars>>

\* panGesture.onUpdate
PanOnUpdate(t) ==
    IF isPinching
    THEN calls' = <<>> /\ UNCHANGED <<viewVars, pinchVars, flagVars>>
    ELSE LET newTranslation == Vec(RAdd(savedTranslation.x, t.x), RAdd(savedTranslation.y, t.y))
             notify == now - lastCallbackTime > CallbackThrottle
         IN  /\ translation' = newTranslation
             /\ translationAnim' = <<>>
             /\ lastCallbackTime' = IF notify THEN now ELSE lastCallbackTime
             /\ calls' = IF notify THEN <<Call("onTranslateChange", <<newTranslation>>)>>
                         ELSE <<>>
             /\ UNCHANGED <<scale, scaleAnim, savedScale, savedTranslation, pinchFocal,
                            pinchAnchor, lastValidFocal, lastScale, jumpDetectedTime,
                            consecutiveJumps, flagVars>>

\* the end of the gestures with the final callbacks throttled like the others
ZoomOnEndThrottled(pinchEnds, panEnds) ==
    /\ isPinching' = IF pinchEnds THEN FALSE ELSE isPinching
    /\ isPanning' = IF panEnds THEN FALSE ELSE isPanning
    /\ calls' = IF now - lastCallbackTime > CallbackThrottle
                THEN (IF pinchEnds
                      THEN <<Call("onScaleChange", <<scale>>),
                             Call("onTranslateChange", <<translation>>)>>
                      ELSE <<>>)
                     \o (IF panEnds THEN <<Call("onTranslateChange", <<translation>>)>>
                         ELSE <<>>)
                ELSE <<>>
    /\ UNCHANGED <<viewVars, pinchVars>>

\* pinchGesture.onEnd, then panGesture.onEnd, for the handlers that were active
ZoomOnEnd(pinchEnds, panEnds) ==
    /\ isPinching' = IF pinchEnds THEN FALSE ELSE isPinching
    /\ isPanning' = IF panEnds THEN FALSE ELSE isPanning
    /\ calls' = (IF pinchEnds
                 THEN <<Call("onScaleChange", <<scale>>),
                        Call("onTranslateChange", <<translation>>)>>
                 ELSE <<>>)
                \o (IF panEnds THEN <<Call("onTranslateChange", <<translation>>)>> ELSE <<>>)
    /\ UNCHANGED <<viewVars, pinchVars>>

\* reset(duration = 300)
ZoomReset ==
    /\ scaleAnim' = WithTiming(Int2Rat(1))
    /\ translationAnim' = WithTiming(ZeroVec)
    /\ isPinching' = FALSE
    /\ isPanning' = FALSE
    /\ UNCHANGED <<scale, translation, pinchVars>>

\* the step labels of setScale(target, false, anchor) and of the handle's setZoom(zoom)
SetScaleOp(target) == "setScale(" \o ToString(target.n) \o "/" \o ToString(target.d) \o ")"
SetZoomOp(zoom) == "canvas.setZoom(" \o ToString(zoom.n) \o "/" \o ToString(zoom.d) \o ")"

\* setScale taking the world point as if the viewport were not translated
ZoomSetScaleFromOrigin(newScale, animated, anchor) ==
    LET clampedScale == Clamp(newScale, minScale, maxScale)
        a == IF anchor # <<>> THEN anchor[1]
             ELSE Vec(Rat(ScreenWidth, 2), Rat(ScreenHeight, 2))
        world == WorldOf(a, ZeroVec, scale)
        newTrans == Vec(RSub(a.x, RMul(world.x, clampedScale)),
                        RSub(a.y, RMul(world.y, clampedScale)))
    IN  /\ IF animated
           THEN /\ scaleAnim' = WithTiming(clampedScale)
                /\ translationAnim' = WithTiming(newTrans)
                /\ UNCHANGED <<scale, translation>>
           ELSE /\ scale' = clampedScale
                /\ translation' = newTrans
                /\ scaleAnim' = <<>>
                /\ translationAnim' = <<>>
        /\ calls' = <<Call("onScaleChange", <<clampedScale>>),
                      Call("onTranslateChange", <<newTrans>>)>>
        /\ UNCHANGED <<pinchVars, flagVars>>

\* setScale(newScale, animated, anchor): anchor is <<>> when not given
ZoomSetScale(newScale, animated, anchor) ==
    LET clampedScale == Clamp(newScale, minScale, maxScale)
        a == IF anchor # <<>> THEN anchor[1]
             ELSE Vec(Rat(ScreenWidth, 2), Rat(ScreenHeight, 2))
        world == WorldOf(a, translation, scale)
        newTrans == Vec(RSub(a.x, RMul(world.x, clampedScale)),
                        RSub(a.y, RMul(world.y, clampedScale)))
    IN  /\ IF animated
           THEN /\ scaleAnim' = WithTiming(clampedScale)
                /\ translationAnim' = WithTiming(newTrans)
                /\ UNCHANGED <<scale, translation>>
           ELSE /\ scale' = clampedScale
                /\ translation' = newTrans
                /\ scaleAnim' = <<>>
                /\ translationAnim' = <<>>
        /\ calls' = <<Call("onScaleChange", <<clampedScale>>),
                      Call("onTranslateChange", <<newTrans>>)>>
        /\ UNCHANGED <<pinchVars, flagVars>>

\* one frame of the running animations: each value moves a 1/left part of
\* the way to its target and arrives with the last frame
AnimationFrame ==
    /\ scaleAnim # <<>> \/ translationAnim # <<>>
    /\ IF scaleAnim = <<>> THEN UNCHANGED <<scale, scaleAnim>>
       ELSE LET a == scaleAnim[1]
            IN  /\ scale' = IF a.left <= 1 THEN a.to
                            ELSE RAdd(scale, RDiv(RSub(a.to, scale), Int2Rat(a.left)))
                /\ scaleAnim' = IF a.left <= 1 THEN <<>>
                                ELSE <<[a EXCEPT !.left = a.left - 1]>>
    /\ IF translationAnim = <<>> THEN UNCHANGED <<translation, translationAnim>>
       ELSE LET a == translationAnim[1]
                step(from, to) == IF a.left <= 1 THEN to
                                  ELSE RAdd(from, RDiv(RSub(to, from), Int2Rat(a.left)))
            IN  /\ translation' = Vec(step(translation.x, a.to.x), step(translation.y, a.to.y))
                /\ translationAnim' = IF a.left <= 1 THEN <<>>
                                      ELSE <<[a EXCEPT !.left = a.left - 1]>>
    /\ calls' = <<>>
    /\ UNCHANGED <<pinchVars, flagVars>>

(***************************************************************************)
(* The canvas as a state machine: the draw handlers the gesture hook       *)
(* calls, and the operations of the imperative handle.                     *)
(***************************************************************************)
SamplePoints == {Pt(Int2Rat(0), Int2Rat(0), Absent), Pt(Int2Rat(3), Int2Rat(4), Num(Rat(1, 2)))}

\* what a gesture hands to handleDrawEnd: nothing, a tap, a stroke whose
\* second point is nearer than the tolerance to the first
SamplePointLists ==
    {<<>>,
     <<Pt(Int2Rat(0), Int2Rat(0), Absent)>>,
     <<Pt(Int2Rat(0), Int2Rat(0), Num(Rat(1, 2))), Pt(Rat(1, 2), Int2Rat(0), Num(Rat(1, 2))),
       Pt(Int2Rat(3), Int2Rat(4), Num(Rat(1, 2)))>>}

CInit ==
    /\ heap = <<(<<>>)>>
    /\ paths = 1
    /\ history = <<>>
    /\ currentIndex = -1
    /\ maxSize \in -1..MaxCanvasHistorySize
    /\ arg = NullRef
    /\ ret = NullRef
    /\ op = "new"
    /\ CanvasNew
    /\ simplifyPaths \in BOOLEAN
    /\ simplifyTolerance = Int2Rat(1)
    /\ ZoomOff /\ ZoomNew /\ HookNew /\ EnvNew /\ FnNew

configVars == <<strokeColor, strokeOpacity, simplifyPaths, simplifyTolerance>>

HandleDrawStart(point) ==
    /\ isDrawingRef' = TRUE
    /\ currentPathPoints' = <<point>>
    /\ calls' = <<Call("onDrawStart", <<point>>)>>
    /\ Settle(TheStore, paths, arg, NullRef, "drawStart")
    /\ UNCHANGED <<currentPathShared, rafPending, nextId, configVars>>

HandleDrawUpdate(point) ==
    IF ~isDrawingRef
    THEN /\ calls' = <<>>
         /\ Settle(TheStore, paths, arg, NullRef, "drawUpdate:ignored")
         /\ UNCHANGED <<isDrawingRef, currentPathPoints, currentPathShared, rafPending,
                        nextId, configVars>>
    ELSE /\ Len(currentPathPoints) < MaxPoints
         /\ currentPathPoints' = Append(currentPathPoints, point)
         /\ currentPathShared' = IF Len(currentPathPoints) + 1 > 1
                                 THEN ProcessPoints(Append(currentPathPoints, point))
                                 ELSE currentPathShared
         /\ calls' = <<Call("onDrawUpdate", <<point>>)>>
         /\ Settle(TheStore, paths, arg, NullRef, "drawUpdate")
         /\ UNCHANGED <<isDrawingRef, rafPending, nextId, configVars>>

\* handleDrawEnd(points), followed by undo(steps) when steps > 0; the step is
\* labelled label
HandleDrawEndAs(points, steps, label) ==
    LET pts == DotPoints(points)
    IN  IF Len(pts) = 0
        THEN /\ isDrawingRef' = FALSE
             /\ currentPathShared' = ""
             /\ calls' = <<>>
             /\ Settle(TheStore, paths, arg, NullRef, label)
             /\ UNCHANGED <<currentPathPoints, rafPending, nextId, configVars>>
        ELSE LET finalPoints == IF simplifyPaths THEN SimplifyPath(pts, simplifyTolerance)
                                ELSE pts
                 newPath == PathData(nextId, finalPoints, strokeColor, 8, strokeOpacity)
                 d == UndoSteps(CommitPath(TheDoc, maxSize, newPath), steps)
             IN  /\ nextId <= MaxStrokes
                 /\ nextId' = nextId + 1
                 /\ rafPending' = rafPending + 1
                 /\ currentPathPoints' = <<>>
                 /\ isDrawingRef' = FALSE
                 /\ calls' = <<Call("onDrawEnd", <<newPath>>), Call("onPathComplete", <<newPath>>)>>
                 /\ Settle(StoreOf(d), d.paths, arg, d.ret, label)
                 /\ UNCHANGED <<currentPathShared, configVars>>

HandleDrawEnd(points, steps) ==
    HandleDrawEndAs(points, steps,
                    IF points = <<>> THEN "drawEnd:empty"
                    ELSE IF steps = 0 THEN "commit"
                    ELSE "commit;undo" \o StepsName(steps))

\* the callback handleDrawEnd gave to requestAnimationFrame
RafCallback ==
    /\ rafPending > 0
    /\ rafPending' = rafPending - 1
    /\ currentPathShared' = ""
    /\ calls' = <<>>
    /\ Settle(TheStore, paths, arg, NullRef, "raf")
    /\ UNCHANGED <<isDrawingRef, currentPathPoints, nextId, configVars>>

CanvasUndo(steps) ==
    LET d == UndoSteps(TheDoc, steps)
    IN  /\ calls' = <<>>
        /\ Settle(StoreOf(d), d.paths, arg, d.ret, "canvas.undo" \o StepsName(steps))
        /\ UNCHANGED <<isDrawingRef, currentPathPoints, currentPathShared, rafPending,
                       nextId, configVars>>

CanvasRedo(steps) ==
    LET d == RedoSteps(TheDoc, steps)
    IN  /\ calls' = <<>>
        /\ Settle(StoreOf(d), d.paths, arg, d.ret, "canvas.redo" \o StepsName(steps))
        /\ UNCHANGED <<isDrawingRef, currentPathPoints, currentPathShared, rafPending,
                       nextId, configVars>>

CanvasClear ==
    LET d == ClearDoc(TheDoc, maxSize)
    IN  /\ calls' = <<>>
        /\ Settle(StoreOf(d), d.paths, arg, NullRef, "canvas.clear")
        /\ UNCHANGED <<isDrawingRef, currentPathPoints, currentPathShared, rafPending,
                       nextId, configVars>>

\* reset(): setPaths([]); historyManager.clear(); if (enableZoom) resetZoom()
CanvasReset ==
    LET d == ResetDoc(TheDoc)
    IN  /\ calls' = <<>>
        /\ Settle(StoreOf(d), d.paths, arg, NullRef, "canvas.reset")
        /\ IF enableZoom THEN ZoomReset ELSE UNCHANGED <<viewVars, pinchVars, flagVars>>
        /\ UNCHANGED <<isDrawingRef, currentPathPoints, currentPathShared, rafPending,
                       nextId, configVars>>

\* setZoom(zoom): if (enableZoom) setScale(zoom, true)
CanvasSetZoom(zoom) ==
    /\ IF enableZoom THEN ZoomSetScale(zoom, TRUE, <<>>)
       ELSE calls' = <<>> /\ UNCHANGED <<viewVars, pinchVars, flagVars>>
    /\ Settle(TheStore, paths, arg, NullRef, SetZoomOp(zoom))
    /\ UNCHANGED <<isDrawingRef, currentPathPoints, currentPathShared, rafPending,
                   nextId, configVars>>

CanvasSetPaths(value) ==
    LET n == NewArray(heap, value)
        d == SetPathsDoc([TheDoc EXCEPT !.heap = n.heap], maxSize, n.addr)
    IN  /\ calls' = <<>>
        /\ Settle(StoreOf(d), d.paths, n.addr, NullRef, "canvas.setPaths")
        /\ UNCHANGED <<isDrawingRef, currentPathPoints, currentPathShared, rafPending,
                       nextId, configVars>>

outsideCanvas == <<zoomVars, hookVars, envVars, jsQueue>>

CDrawStart == (\E point \in SamplePoints : HandleDrawStart(point)) /\ UNCHANGED outsideCanvas
CDrawUpdate == (\E point \in SamplePoints : HandleDrawUpdate(point)) /\ UNCHANGED outsideCanvas
CDrawEnd ==
    /\ \E points \in SamplePointLists : HandleDrawEnd(points, 0)
    /\ UNCHANGED outsideCanvas
CDrawEndThenUndo ==
    /\ \E points \in SamplePointLists \ {<<>>} : HandleDrawEnd(points, 1)
    /\ UNCHANGED outsideCanvas
CRaf == RafCallback /\ UNCHANGED outsideCanvas
CUndo == (\E steps \in 0..MaxSteps : CanvasUndo(steps)) /\ UNCHANGED outsideCanvas
CRedo == (\E steps \in 0..MaxSteps : CanvasRedo(steps)) /\ UNCHANGED outsideCanvas
CClear == CanvasClear /\ UNCHANGED outsideCanvas
CReset == CanvasReset /\ UNCHANGED <<zoomConfig, hookVars, envVars, jsQueue>>
CSetPaths == (\E value \in {<<SampleDot>>} : CanvasSetPaths(value)) /\ UNCHANGED outsideCanvas

CNext ==
    \/ CDrawEnd
    \/ CDrawEndThenUndo
    \/ CRaf
    \/ CUndo
    \/ CRedo
    \/ CClear
    \/ CReset
    \/ CSetPaths

SpecCanvas == CInit /\ [][CNext]_vars


\* the labels of the steps undo(n) and redo(n) of the canvas with n >= 1
UndoOps == {"canvas.undo" \o StepsName(n) : n \in 1..MaxSteps}
RedoOps == {"canvas.redo" \o StepsName(n) : n \in 1..MaxSteps}

(***************************************************************************)
(* C1: for every stroke commit, the first stroke on an empty canvas and    *)
(* the first stroke after reset() included, undo(1) called immediately     *)
(* after the commit sets the path collection to the value it had just      *)
(* before that commit.  Stated for the stores that can hold the snapshot   *)
(* before and the snapshot after a commit (maxSize >= 2).                  *)
(***************************************************************************)
C1_UndoAfterCommitRestores ==
    [][(maxSize >= 2 /\ op' = "commit;undo1") => heap'[paths'] = heap[paths]]_vars

(***************************************************************************)
(* C10: undo() at index 0 or on an empty store, and redo() at the last     *)
(* index, return null and leave the current index and every stored entry   *)
(* unchanged; the path collection of the canvas is then unchanged.         *)
(***************************************************************************)
C10_NoOpPastRange ==
    [][(\/ op' \in UndoOps /\ currentIndex <= 0
        \/ op' \in RedoOps /\ currentIndex = Len(history) - 1)
       => /\ ret' = NullRef
          /\ currentIndex' = currentIndex
          /\ HistVals' = HistVals
          /\ heap'[paths'] = heap[paths]]_vars

\* undo(1) refused at index 0 of a store that holds two snapshots, on a
\* canvas that shows a stroke
C10_Witness ==
    /\ op = "canvas.undo1"
    /\ ret = NullRef
    /\ currentIndex = 0
    /\ Len(history) = 2
    /\ Len(heap[paths]) > 0

(***************************************************************************)
(* The viewport as a state machine: the two-pointer handlers of            *)
(* useZoomGesture, setScale, the canvas's setZoom and reset, the animation *)
(* frames and the clock.  The draw gesture writes none of the values read  *)
(* here and is left out of this specification.                             *)
(***************************************************************************)
ZoomRanges == {<<Rat(1, 2), Int2Rat(3)>>, <<Int2Rat(2), Int2Rat(3)>>}
Focals == {ZeroVec, Vec(Int2Rat(100), Int2Rat(0))}
PinchScales == {Rat(1, 4), Int2Rat(1), Int2Rat(2)}
PanOffsets == {Vec(Int2Rat(10), Int2Rat(0))}
ZoomTargets == {Rat(1, 10), Rat(5, 2), Int2Rat(10)}

canvasState == <<paths, isDrawingRef, currentPathPoints, currentPathShared, rafPending,
                 nextId, configVars>>
outsideZoom == <<histVars, clientVars, canvasState, zoomConfig, hookVars, jsQueue>>

VInit ==
    /\ heap = <<(<<>>)>>
    /\ paths = 1
    /\ history = <<>>
    /\ currentIndex = -1
    /\ maxSize = MaxCanvasHistorySize
    /\ arg = NullRef
    /\ ret = NullRef
    /\ op = "new"
    /\ CanvasNew
    /\ simplifyPaths = TRUE
    /\ simplifyTolerance = Int2Rat(1)
    /\ enableZoom = TRUE
    /\ \E range \in ZoomRanges : minScale = range[1] /\ maxScale = range[2]
    /\ ZoomNew /\ HookNew /\ EnvNew /\ FnNew

\* two fingers land: the pinch and the two-pointer pan handler begin
VTouch ==
    /\ pointers = 0
    /\ pointers' = 2
    /\ pinchHandler' = "BEGAN"
    /\ panHandler' = "BEGAN"
    /\ op' = "touch" /\ UNCHANGED fnVars
    /\ calls' = <<>>
    /\ UNCHANGED <<viewVars, pinchVars, flagVars, drawHandler, now, inputs, outsideZoom>>

VPinchStart ==
    /\ pinchHandler = "BEGAN"
    /\ pinchHandler' = "ACTIVE"
    /\ \E focal \in Focals : PinchOnStart(focal)
    /\ op' = "pinch.onStart" /\ UNCHANGED fnVars
    /\ UNCHANGED <<pointers, drawHandler, panHandler, now, inputs, outsideZoom>>

VPinchUpdate ==
    /\ pinchHandler = "ACTIVE"
    /\ inputs < MaxInputs
    /\ inputs' = inputs + 1
    /\ \E eScale \in PinchScales, focal \in Focals : PinchOnUpdate(eScale, focal)
    /\ op' = "pinch.onUpdate" /\ UNCHANGED fnVars
    /\ UNCHANGED <<pointers, drawHandler, pinchHandler, panHandler, now, outsideZoom>>

VPanStart ==
    /\ panHandler = "BEGAN"
    /\ panHandler' = "ACTIVE"
    /\ PanOnStart
    /\ op' = "pan.onStart" /\ UNCHANGED fnVars
    /\ UNCHANGED <<pointers, drawHandler, pinchHandler, now, inputs, outsideZoom>>

VPanUpdate ==
    /\ panHandler = "ACTIVE"
    /\ inputs < MaxInputs
    /\ inputs' = inputs + 1
    /\ \E t \in PanOffsets : PanOnUpdate(t)
    /\ op' = "pan.onUpdate" /\ UNCHANGED fnVars
    /\ UNCHANGED <<pointers, drawHandler, pinchHandler, panHandler, now, outsideZoom>>

\* the fingers lift: the handlers that were active end
VLift ==
    /\ pointers = 2
    /\ pointers' = 0
    /\ ZoomOnEnd(pinchHandler = "ACTIVE", panHandler = "ACTIVE")
    /\ pinchHandler' = "UNDETERMINED"
    /\ panHandler' = "UNDETERMINED"
    /\ op' = "lift" /\ UNCHANGED fnVars
    /\ UNCHANGED <<drawHandler, now, inputs, outsideZoom>>

VSetScale ==
    /\ inputs < MaxInputs
    /\ inputs' = inputs + 1
    /\ \E target \in ZoomTargets, anchor \in {<<>>, <<ZeroVec>>} :
           ZoomSetScale(target, FALSE, anchor) /\ op' = SetScaleOp(target)
    /\ UNCHANGED fnVars
    /\ UNCHANGED <<pointers, drawHandler, pinchHandler, panHandler, now, outsideZoom>>

VSetZoom ==
    /\ inputs < MaxInputs
    /\ inputs' = inputs + 1
    /\ \E target \in ZoomTargets : CanvasSetZoom(target)
    /\ UNCHANGED <<zoomConfig, hookVars, jsQueue, pointers, drawHandler, pinchHandler,
                   panHandler, now>>

VReset ==
    /\ inputs < MaxInputs
    /\ inputs' = inputs + 1
    /\ CanvasReset
    /\ UNCHANGED <<zoomConfig, hookVars, jsQueue, pointers, drawHandler, pinchHandler,
                   panHandler, now>>

VFrame ==
    /\ AnimationFrame
    /\ op' = "frame" /\ UNCHANGED fnVars
    /\ UNCHANGED <<envVars, outsideZoom>>

VTick ==
    /\ now < StartTime + MaxTicks * TickMs
    /\ now' = now + TickMs
    /\ op' = "tick" /\ UNCHANGED fnVars
    /\ calls' = <<>>
    /\ UNCHANGED <<viewVars, pinchVars, flagVars, pointers, drawHandler, pinchHandler,
                   panHandler, inputs, outsideZoom>>

VNext ==
    \/ VTouch
    \/ VPinchStart
    \/ VPinchUpdate
    \/ VPanStart
    \/ VPanUpdate
    \/ VLift
    \/ VSetScale
    \/ VSetZoom
    \/ VReset
    \/ VFrame
    \/ VTick

SpecViewport == VInit /\ [][VNext]_vars

(***************************************************************************)
(* C4: in every reachable viewport state, for any configured zoom range,   *)
(* minScale <= scale <= maxScale.                                          *)
(***************************************************************************)
C4_ScaleInRange == RLe(minScale, scale) /\ RLe(scale, maxScale)

(***************************************************************************)
(* useDrawingGesture (src/unnamed/part_004, lines 405-592).  The hook's    *)
(* shared values and the queue of calls scheduled on the React Native      *)
(* thread form a record; each callback maps a record to a record, so that  *)
(* the callbacks one touch event triggers compose.                         *)
(***************************************************************************)
CooldownMs == 100

\* minDistance: 0.0, as PerfectCanvas configures the hook
MinDistance == Int2Rat(0)

TheHook == [isDrawing |-> isDrawing, currentPath |-> currentPath, lastPoint |-> lastPoint,
            lastTime |-> lastTime, multiTouchEndTime |-> multiTouchEndTime,
            queue |-> jsQueue]

\* Math.sqrt on the squares the sampled touches produce
RSqrt(q) ==
    LET root(k) == CHOOSE r \in 0..k : r * r = k
    IN  Rat(root(q.n), root(q.d))

\* screen to world without the translation
TransformedByScaleOnly(pos) ==
    IF enableZoom THEN Vec(RDiv(pos.x, scale), RDiv(pos.y, scale)) ELSE pos

\* screen to world: (x - translation.x) / scale when the zoom values are passed
Transformed(pos) == IF enableZoom THEN WorldOf(pos, translation, scale) ELSE pos

\* handleStart(x, y): no pressure is passed
HandleStart(h, pos) ==
    LET w == Transformed(pos)
        point == Pt(w.x, w.y, Absent)
    IN  [h EXCEPT !.currentPath = <<point>>,
                  !.lastPoint = <<point>>,
                  !.lastTime = now,
                  !.isDrawing = TRUE,
                  !.multiTouchEndTime = 0,
                  !.queue = Append(h.queue, Call("onDrawStart", <<point>>))]

\* handleUpdate(x, y): the pressure comes from the velocity when time has passed
HandleUpdate(h, pos) ==
    IF ~h.isDrawing \/ h.lastPoint = <<>> THEN h
    ELSE LET w == Transformed(pos)
             last == h.lastPoint[1]
             deltaTime == now - h.lastTime
             dx == RSub(w.x, last.x)
             dy == RSub(w.y, last.y)
             distance == RSqrt(RAdd(RMul(dx, dx), RMul(dy, dy)))
             velocity == RMul(RDiv(distance, Int2Rat(deltaTime)), Int2Rat(1000))
             normalized == RMin(Int2Rat(1), RDiv(velocity, Int2Rat(100)))
             finalPressure == IF deltaTime > 0
                              THEN Num(RSub(Int2Rat(1), RMul(normalized, Rat(4, 5))))
                              ELSE Absent
             point == Pt(w.x, w.y, finalPressure)
         IN  IF RLt(distance, MinDistance) THEN h
             ELSE [h EXCEPT !.currentPath = Append(h.currentPath, point),
                            !.lastPoint = <<point>>,
                            !.lastTime = now,
                            !.queue = Append(h.queue, Call("onDrawUpdate", <<point>>))]

\* handleEnd()
HandleEnd(h) ==
    IF ~h.isDrawing THEN h
    ELSE [h EXCEPT !.isDrawing = FALSE,
                   !.currentPath = <<>>,
                   !.lastPoint = <<>>,
                   !.queue = IF Len(h.currentPath) > 0
                             THEN Append(h.queue, Call("onDrawEnd", <<h.currentPath>>))
                             ELSE h.queue]

\* panGesture.onBegin, reading the given values of the zoom hook's flags
OnBeginWith(h, pos, panning, pinching) ==
    IF enableZoom /\ panning THEN [h EXCEPT !.multiTouchEndTime = now]
    ELSE IF enableZoom /\ pinching THEN [h EXCEPT !.multiTouchEndTime = now]
    ELSE IF now - h.multiTouchEndTime < CooldownMs THEN h
    ELSE HandleStart(h, pos)

\* panGesture.onBegin
OnBegin(h, pos) == OnBeginWith(h, pos, isPanning, isPinching)

\* panGesture.onUpdate
OnUpdate(h, pos) ==
    IF enableZoom /\ isPanning THEN h
    ELSE IF enableZoom /\ isPinching THEN h
    ELSE HandleUpdate(h, pos)

\* panGesture.onEnd: handleEnd() whether the gesture ended or was cancelled
OnEnd(h) == HandleEnd(h)

\* panGesture.onFinalize
OnFinalize(h) ==
    LET afterPan == IF enableZoom /\ ~isPanning /\ h.multiTouchEndTime = 0
                    THEN now ELSE h.multiTouchEndTime
        afterPinch == IF enableZoom /\ ~isPinching /\ afterPan = 0 THEN now ELSE afterPan
    IN  [h EXCEPT !.multiTouchEndTime = afterPinch]

\* the hook's shared values after a callback; the queue is left to the caller
SetHook(h) ==
    /\ isDrawing' = h.isDrawing
    /\ currentPath' = h.currentPath
    /\ lastPoint' = h.lastPoint
    /\ lastTime' = h.lastTime
    /\ multiTouchEndTime' = h.multiTouchEndTime

(***************************************************************************)
(* The draw handler of react-native-gesture-handler, Pan with              *)
(* minDistance(0) and maxPointers(1): it begins with the first finger      *)
(* (onBegin), becomes active with the first movement (onUpdate from then   *)
(* on), ends when the finger lifts, and is cancelled (if active) or fails  *)
(* (if it only began) when a second finger lands.  onEnd is called when    *)
(* an active handler ends or is cancelled, onFinalize whenever a handler   *)
(* that began stops.                                                       *)
(***************************************************************************)
\* the hook after the handler in state st stops
Stopped(h, st) ==
    IF st = "ACTIVE" THEN OnFinalize(OnEnd(h))
    ELSE IF st = "BEGAN" THEN OnFinalize(h)
    ELSE h

(***************************************************************************)
(* The canvas under touch: PerfectCanvas with enableZoom, its draw gesture *)
(* composed with the zoom gestures (Gesture.Simultaneous), the React       *)
(* Native thread that runs the scheduled draw callbacks, and the clock.    *)
(* The fingers of a two-finger gesture do not move here, so the viewport   *)
(* stays where it is.                                                      *)
(***************************************************************************)
\* where the first finger lands, and where it moves to
DownPoints == {ZeroVec}
TouchPoints == {ZeroVec, Vec(Int2Rat(3), Int2Rat(4))}

drawFrame == <<histVars, clientVars, canvasState, zoomVars>>

GInit ==
    /\ heap = <<(<<>>)>>
    /\ paths = 1
    /\ history = <<>>
    /\ currentIndex = -1
    /\ maxSize = MaxCanvasHistorySize
    /\ arg = NullRef
    /\ ret = NullRef
    /\ op = "new"
    /\ CanvasNew
    /\ simplifyPaths = TRUE
    /\ simplifyTolerance = Int2Rat(1)
    /\ enableZoom = TRUE
    /\ minScale = Rat(1, 2)
    /\ maxScale = Int2Rat(3)
    /\ ZoomNew /\ HookNew /\ EnvNew /\ FnNew

\* the first finger lands: the draw handler begins
GPointerDown ==
    /\ pointers = 0
    /\ Len(jsQueue) < MaxQueue
    /\ \E pos \in DownPoints :
           LET h == OnBegin(TheHook, pos)
           IN  SetHook(h) /\ jsQueue' = h.queue
    /\ pointers' = 1
    /\ drawHandler' = "BEGAN"
    /\ op' = "pointerDown" /\ UNCHANGED fnVars
    /\ calls' = <<>>
    /\ UNCHANGED <<pinchHandler, panHandler, now, inputs, drawFrame>>

\* the finger moves: the draw handler is active and updates
GMove ==
    /\ pointers = 1
    /\ drawHandler \in {"BEGAN", "ACTIVE"}
    /\ Len(currentPath) < MaxPoints
    /\ Len(jsQueue) < MaxQueue
    /\ \E pos \in TouchPoints :
           LET h == OnUpdate(TheHook, pos)
           IN  SetHook(h) /\ jsQueue' = h.queue
    /\ drawHandler' = "ACTIVE"
    /\ op' = "move" /\ UNCHANGED fnVars
    /\ calls' = <<>>
    /\ UNCHANGED <<pointers, pinchHandler, panHandler, now, inputs, drawFrame>>

\* a second finger lands: the draw handler is cancelled or fails, the
\* two-pointer handlers begin
GSecondPointer ==
    /\ pointers = 1
    /\ Len(jsQueue) < MaxQueue
    /\ LET h == Stopped(TheHook, drawHandler)
       IN  SetHook(h) /\ jsQueue' = h.queue
    /\ pointers' = 2
    /\ drawHandler' = "FINISHED"
    /\ pinchHandler' = "BEGAN"
    /\ panHandler' = "BEGAN"
    /\ op' = "pointerDown2" /\ UNCHANGED fnVars
    /\ calls' = <<>>
    /\ UNCHANGED <<now, inputs, drawFrame>>

\* a second finger lands during a draw session and the React Native thread
\* then runs what the event scheduled
GSecondPointerThenRun ==
    /\ pointers = 1
    /\ isDrawing
    /\ drawHandler \in {"BEGAN", "ACTIVE"}
    /\ jsQueue = <<>>
    /\ LET h == Stopped(TheHook, drawHandler)
       IN  /\ SetHook(h)
           /\ IF h.queue = <<>>
              THEN /\ Settle(TheStore, paths, arg, NullRef, "pointerDown2;run")
                   /\ calls' = <<>>
                   /\ UNCHANGED canvasState
              ELSE HandleDrawEndAs(h.queue[1].args[1], 0, "pointerDown2;run")
    /\ jsQueue' = <<>>
    /\ pointers' = 2
    /\ drawHandler' = "FINISHED"
    /\ pinchHandler' = "BEGAN"
    /\ panHandler' = "BEGAN"
    /\ UNCHANGED <<now, inputs, zoomVars>>

\* one of two fingers lifts: the two-pointer handlers stop
GPointerUp2 ==
    /\ pointers = 2
    /\ pointers' = 1
    /\ ZoomOnEnd(pinchHandler = "ACTIVE", panHandler = "ACTIVE")
    /\ pinchHandler' = "UNDETERMINED"
    /\ panHandler' = "UNDETERMINED"
    /\ op' = "pointerUp2" /\ UNCHANGED fnVars
    /\ UNCHANGED <<drawHandler, now, inputs, outsideZoom>>

\* both fingers of an active pinch or pan lift and one finger lands again,
\* all within the same instant: the zoom handlers end, the draw handler
\* (stopped since the second finger landed) is released and begins anew
GZoomEndThenTouch ==
    /\ pointers = 2
    /\ drawHandler = "FINISHED"
    /\ pinchHandler = "ACTIVE" \/ panHandler = "ACTIVE"
    /\ Len(jsQueue) < MaxQueue
    /\ ZoomOnEnd(pinchHandler = "ACTIVE", panHandler = "ACTIVE")
    /\ \E pos \in DownPoints :
           LET lifted == Stopped(TheHook, drawHandler)
               h == OnBeginWith(lifted, pos, isPanning', isPinching')
           IN  SetHook(h) /\ jsQueue' = h.queue
    /\ pointers' = 1
    /\ drawHandler' = "BEGAN"
    /\ pinchHandler' = "UNDETERMINED"
    /\ panHandler' = "UNDETERMINED"
    /\ op' = "zoomEnd;touch" /\ UNCHANGED fnVars
    /\ UNCHANGED <<now, inputs, histVars, clientVars, canvasState, zoomConfig>>

\* the last finger lifts: the draw handler ends or fails
GPointerUp ==
    /\ pointers = 1
    /\ Len(jsQueue) < MaxQueue
    /\ LET h == Stopped(TheHook, drawHandler)
       IN  SetHook(h) /\ jsQueue' = h.queue
    /\ pointers' = 0
    /\ drawHandler' = "UNDETERMINED"
    /\ op' = "pointerUp" /\ UNCHANGED fnVars
    /\ calls' = <<>>
    /\ UNCHANGED <<pinchHandler, panHandler, now, inputs, drawFrame>>

\* the React Native thread runs the oldest scheduled call
GRunOnRN ==
    /\ jsQueue # <<>>
    /\ jsQueue' = Tail(jsQueue)
    /\ LET call == Head(jsQueue)
       IN  CASE call.fn = "onDrawStart" -> HandleDrawStart(call.args[1])
             [] call.fn = "onDrawUpdate" -> HandleDrawUpdate(call.args[1])
             [] call.fn = "onDrawEnd" -> HandleDrawEnd(call.args[1], 0)
    /\ UNCHANGED <<zoomVars, hookVars, envVars>>

\* the pinch handler becomes active under the two fingers
GPinchStart ==
    /\ pinchHandler = "BEGAN"
    /\ pinchHandler' = "ACTIVE"
    /\ \E focal \in DownPoints : PinchOnStart(focal)
    /\ op' = "pinch.onStart" /\ UNCHANGED fnVars
    /\ UNCHANGED <<pointers, drawHandler, panHandler, now, inputs, outsideZoom>>

GNext ==
    \/ GPointerDown
    \/ GMove
    \/ GSecondPointer
    \/ GSecondPointerThenRun
    \/ GPointerUp2
    \/ GZoomEndThenTouch
    \/ GPointerUp
    \/ GPinchStart
    \/ VPanStart
    \/ GRunOnRN
    \/ CRaf
    \/ VTick

SpecGesture == GInit /\ [][GNext]_vars

(***************************************************************************)
(* C2: if a second pointer arrives while a single-pointer draw session is  *)
(* in progress, the in-flight stroke is discarded: no Path is appended to  *)
(* the path collection, no history snapshot is pushed, and onDrawEnd and   *)
(* onPathComplete are not delivered for that stroke.                       *)
(***************************************************************************)
C2_SecondPointerDiscards ==
    [][(isDrawing /\ op' = "pointerDown2;run")
       => /\ heap'[paths'] = heap[paths]
          /\ HistVals' = HistVals
          /\ \A i \in DOMAIN calls' : calls'[i].fn \notin {"onDrawEnd", "onPathComplete"}]_vars

(***************************************************************************)
(* C3: in every reachable state at most one of isDrawing, isPanning and    *)
(* isPinching is true.                                                     *)
(***************************************************************************)
C3_AtMostOneActive ==
    /\ ~(isDrawing /\ isPanning)
    /\ ~(isDrawing /\ isPinching)
    /\ ~(isPanning /\ isPinching)

(***************************************************************************)
(* C11: after a panning or pinching gesture ends at time T, no draw        *)
(* session is started by a single-pointer touch-down that occurs before    *)
(* T + 100ms.  Stated for the touch-down at T itself: the step that ends   *)
(* the zoom gesture and lands one finger schedules no onDrawStart and      *)
(* leaves the hook's session state as it was.                              *)
(***************************************************************************)
C11_CooldownAfterZoomEnd ==
    [][op' = "zoomEnd;touch"
       => /\ jsQueue' = jsQueue
          /\ isDrawing' = isDrawing
          /\ currentPath' = currentPath
          /\ lastPoint' = lastPoint]_vars

(***************************************************************************)
(* C12: whenever all pointers have been lifted, no gesture state remains   *)
(* in flight: isDrawing is false, the in-progress point buffer is empty    *)
(* and lastPoint is cleared, and isPinching and isPanning are false.       *)
(***************************************************************************)
C12_NothingInFlightWhenLifted ==
    pointers = 0
    => /\ ~isDrawing
       /\ currentPath = <<>>
       /\ lastPoint = <<>>
       /\ ~isPinching
       /\ ~isPanning

C14_SetScaleClamps ==
    [][/\ \A target \in ZoomTargets :
             LET clamped == IF RLt(target, minScale) THEN minScale
                            ELSE IF RLt(maxScale, target) THEN maxScale
                            ELSE target
             IN  /\ op' = SetScaleOp(target)
                    => /\ scale' = clamped
                       /\ scaleAnim' = <<>>
                       /\ calls'[1] = Call("onScaleChange", <<clamped>>)
                 /\ op' = SetZoomOp(target)
                    => /\ scaleAnim' = <<[to |-> clamped, left |-> AnimFrames]>>
                       /\ calls'[1] = Call("onScaleChange", <<clamped>>)
       /\ (op' = "frame" /\ scaleAnim # <<>> /\ scaleAnim' = <<>>)
          => scale' = scaleAnim[1].to]_vars

\* setScale(10) with minScale = 0.5 and maxScale = 3 has set the scale to 3
C14_Witness ==
    /\ op = SetScaleOp(Int2Rat(10))
    /\ minScale = Rat(1, 2)
    /\ maxScale = Int2Rat(3)
    /\ scale = Int2Rat(3)
    /\ calls[1] = Call("onScaleChange", <<Int2Rat(3)>>)

(***************************************************************************)
(* The exported functions of src/src/utils/svg.ts, called on their own.    *)
(* A path description is kept as the sequence of tokens that join(' ')     *)
(* puts into the string: a command letter or a number; the empty string    *)
(* is the empty sequence.                                                  *)
(***************************************************************************)
MaxPathLen == 4

Cmd(c) == [t |-> "cmd", c |-> c, v |-> Int2Rat(0)]
NumTok(r) == [t |-> "num", c |-> "", v |-> r]

\* like the reduce below, but without the wrap from the last vertex to the first
RECURSIVE StrokeReduceOpen(_, _, _)
StrokeReduceOpen(stroke, i, acc) ==
    IF i > Len(stroke) THEN acc
    ELSE LET a == stroke[i]
             b == stroke[IF i < Len(stroke) THEN i + 1 ELSE i]
         IN  StrokeReduceOpen(stroke, i + 1,
                 acc \o <<NumTok(a.x), NumTok(a.y),
                          NumTok(RDiv(RAdd(a.x, b.x), Int2Rat(2))),
                          NumTok(RDiv(RAdd(a.y, b.y), Int2Rat(2)))>>)

\* stroke.reduce(...): element i (counted from 1 here) adds itself and the
\* midpoint to the element after it, the first one after the last
RECURSIVE StrokeReduce(_, _, _)
StrokeReduce(stroke, i, acc) ==
    IF i > Len(stroke) THEN acc
    ELSE LET a == stroke[i]
             b == stroke[(i % Len(stroke)) + 1]
         IN  StrokeReduce(stroke, i + 1,
                 acc \o <<NumTok(a.x), NumTok(a.y),
                          NumTok(RDiv(RAdd(a.x, b.x), Int2Rat(2))),
                          NumTok(RDiv(RAdd(a.y, b.y), Int2Rat(2)))>>)

GetSvgPathFromStroke(stroke) ==
    IF Len(stroke) = 0 THEN <<>>
    ELSE Append(StrokeReduce(stroke, 1,
                    <<Cmd("M"), NumTok(stroke[1].x), NumTok(stroke[1].y), Cmd("Q")>>),
                Cmd("Z"))

\* an element of the exported document: <rect ... /> or <path ... />
SvgElement(tag, d, fill, opacity) == [tag |-> tag, d |-> d, fill |-> fill, opacity |-> opacity]

\* value || fallback: the fallback replaces every falsy value, 0 among them
OrElse(value, fallback) ==
    IF value.k = "num" /\ value.v # Int2Rat(0) THEN value ELSE Num(fallback)

\* createSvgFromPaths(paths, {backgroundColor}): the elements inside <svg>
CreateSvgFromPaths(pathList, backgroundColor) ==
    <<SvgElement("rect", "", backgroundColor, Absent)>>
    \o [i \in 1..Len(pathList) |->
           SvgElement("path", pathList[i].svgPath, pathList[i].color,
                      OrElse(pathList[i].opacity, Int2Rat(1)))]

SeqsUpTo(S, n) == UNION {[1..k -> S] : k \in 0..n}

\* the points of the strokes given to simplifyPath, and the tolerances
StrokePoints == {Pt(Int2Rat(0), Int2Rat(0), Absent),
                 Pt(Int2Rat(5), Int2Rat(5), Absent),
                 Pt(Int2Rat(10), Int2Rat(10), Num(Rat(1, 2)))}
Tolerances == {Int2Rat(0), Int2Rat(8), Int2Rat(100)}

\* the vertices of the outlines given to getSvgPathFromStroke
OutlineVertices == {ZeroVec, Vec(Int2Rat(4), Int2Rat(0)), Vec(Int2Rat(1), Int2Rat(3))}

\* committed paths as the canvas builds them, in two colours and with
\* stroke opacities 0, 1/2 and 1, and one without an opacity
ExportStroke == <<Pt(Int2Rat(0), Int2Rat(0), Absent), Pt(Int2Rat(5), Int2Rat(5), Absent)>>
ExportPaths == {PathData(1, ExportStroke, "black", 8, Num(Int2Rat(0))),
                PathData(2, ExportStroke, "red", 8, Num(Rat(1, 2))),
                PathData(3, ExportStroke, "black", 8, Num(Int2Rat(1))),
                PathData(4, ExportStroke, "red", 8, Absent)}

FnCalls ==
    {[fn |-> "simplifyPath", args |-> <<points, tol>>] :
        points \in SeqsUpTo(StrokePoints, MaxPathLen), tol \in Tolerances}
    \cup {[fn |-> "getSvgPathFromStroke", args |-> <<stroke>>] :
             stroke \in SeqsUpTo(OutlineVertices, MaxPathLen)}
    \cup {[fn |-> "createSvgFromPaths", args |-> <<pathList, "white">>] :
             pathList \in SeqsUpTo(ExportPaths, MaxPathLen)}

FInit ==
    /\ heap = <<>>
    /\ history = <<>>
    /\ currentIndex = -1
    /\ maxSize = MaxHistorySize
    /\ arg = NullRef
    /\ ret = NullRef
    /\ op = "new"
    /\ paths = NullRef
    /\ CanvasNew
    /\ simplifyPaths = TRUE
    /\ simplifyTolerance = Int2Rat(1)
    /\ ZoomOff /\ ZoomNew /\ HookNew /\ EnvNew
    /\ fnIn \in FnCalls
    /\ fnOut = <<>>

\* everything but the call and its result
outsideFn == <<histVars, clientVars, canvasVars, zoomVars, hookVars, envVars, jsQueue>>

FSimplifyPath ==
    /\ op = "new"
    /\ fnIn.fn = "simplifyPath"
    /\ fnOut' = SimplifyPath(fnIn.args[1], fnIn.args[2])
    /\ op' = "simplifyPath"
    /\ UNCHANGED <<fnIn, outsideFn>>

FGetSvgPathFromStroke ==
    /\ op = "new"
    /\ fnIn.fn = "getSvgPathFromStroke"
    /\ fnOut' = GetSvgPathFromStroke(fnIn.args[1])
    /\ op' = "getSvgPathFromStroke"
    /\ UNCHANGED <<fnIn, outsideFn>>

FCreateSvgFromPaths ==
    /\ op = "new"
    /\ fnIn.fn = "createSvgFromPaths"
    /\ fnOut' = CreateSvgFromPaths(fnIn.args[1], fnIn.args[2])
    /\ op' = "createSvgFromPaths"
    /\ UNCHANGED <<fnIn, outsideFn>>

\* simplifyPath applied to its own result, with the same tolerance
FSimplifyPathAgain ==
    /\ op = "simplifyPath"
    /\ fnOut' = SimplifyPath(fnOut, fnIn.args[2])
    /\ op' = "simplifyPath;simplifyPath"
    /\ UNCHANGED <<fnIn, outsideFn>>

FNext ==
    \/ FSimplifyPath
    \/ FSimplifyPathAgain
    \/ FGetSvgPathFromStroke
    \/ FCreateSvgFromPaths

SpecFunctions == FInit /\ [][FNext]_vars

(***************************************************************************)
(* C15: for every point sequence P with |P| >= 2 and every tolerance tol,  *)
(* simplifyPath(P, tol) keeps P[0] as its first element and P[last] as its *)
(* last element, and every retained interior point is at distance >= tol   *)
(* from the point retained immediately before it.                          *)
(***************************************************************************)
C15_SimplifyKeepsEnds ==
    (op = "simplifyPath" /\ Len(fnIn.args[1]) >= 2)
    => LET P == fnIn.args[1]
           tol == fnIn.args[2]
           R == fnOut
       IN  /\ Len(R) >= 2
           /\ R[1] = P[1]
           /\ R[Len(R)] = P[Len(P)]
           /\ \A i \in 2..(Len(R) - 1) :
                  LET dx == RSub(R[i].x, R[i - 1].x)
                      dy == RSub(R[i].y, R[i - 1].y)
                  IN  \/ RLe(tol, Int2Rat(0))
                      \/ RLe(RMul(tol, tol), RAdd(RMul(dx, dx), RMul(dy, dy)))

\* [(0,0),(5,5),(10,10)] with tolerance 100 has become [(0,0),(10,10)]
C15_Witness ==
    /\ op = "simplifyPath"
    /\ fnIn.args = <<(<<Pt(Int2Rat(0), Int2Rat(0), Absent),
                        Pt(Int2Rat(5), Int2Rat(5), Absent),
                        Pt(Int2Rat(10), Int2Rat(10), Num(Rat(1, 2)))>>), Int2Rat(100)>>
    /\ fnOut = <<Pt(Int2Rat(0), Int2Rat(0), Absent),
                 Pt(Int2Rat(10), Int2Rat(10), Num(Rat(1, 2)))>>

(***************************************************************************)
(* C18: for an outline of n >= 1 vertices v0..v(n-1), getSvgPathFromStroke *)
(* returns the token sequence M v0 Q followed, for i = 0..n-1 in order, by *)
(* v_i and the midpoint of v_i and v_((i+1) mod n), terminated by Z; for   *)
(* an empty outline it returns the empty string.                           *)
(***************************************************************************)
C18_SvgPathTokens ==
    op = "getSvgPathFromStroke"
    => LET v == fnIn.args[1]
           n == Len(v)
           d == fnOut
           Half(a, b) == RDiv(RAdd(a, b), Int2Rat(2))
       IN  IF n = 0 THEN d = <<>>
           ELSE /\ Len(d) = 4 * n + 5
                /\ d[1] = Cmd("M")
                /\ d[2] = NumTok(v[1].x)
                /\ d[3] = NumTok(v[1].y)
                /\ d[4] = Cmd("Q")
                /\ \A i \in 0..(n - 1) :
                       LET a == v[i + 1]
                           b == v[((i + 1) % n) + 1]
                       IN  /\ d[4 * i + 5] = NumTok(a.x)
                           /\ d[4 * i + 6] = NumTok(a.y)
                           /\ d[4 * i + 7] = NumTok(Half(a.x, b.x))
                           /\ d[4 * i + 8] = NumTok(Half(a.y, b.y))
                /\ d[4 * n + 5] = Cmd("Z")

\* an outline of three distinct vertices: the last curve ends midway back to the first
C18_Witness ==
    /\ op = "getSvgPathFromStroke"
    /\ fnIn.args[1] = <<ZeroVec, Vec(Int2Rat(4), Int2Rat(0)), Vec(Int2Rat(1), Int2Rat(3))>>
    /\ Len(fnOut) = 17
    /\ fnOut[15] = NumTok(Rat(1, 2))
    /\ fnOut[16] = NumTok(Rat(3, 2))

(***************************************************************************)
(* C19: the export document produced by createSvgFromPaths contains        *)
(* exactly one filled shape per committed Path, in path-collection order,  *)
(* and each shape carries that Path's own fill color and that Path's own   *)
(* stored opacity value, for every stored opacity in [0,1].                *)
(***************************************************************************)
C19_ExportKeepsColorAndOpacity ==
    op = "createSvgFromPaths"
    => LET P == fnIn.args[1]
           shapes == SelectSeq(fnOut, LAMBDA e : e.tag = "path")
       IN  /\ Len(shapes) = Len(P)
           /\ \A i \in 1..Len(P) :
                  /\ shapes[i].fill = P[i].color
                  /\ (/\ P[i].opacity.k = "num"
                      /\ RLe(Int2Rat(0), P[i].opacity.v)
                      /\ RLe(P[i].opacity.v, Int2Rat(1)))
                     => shapes[i].opacity = P[i].opacity

(***************************************************************************)
(* The canvas at the end of a draw session: PerfectCanvas with either      *)
(* simplification setting and several tolerances, its handleDrawStart      *)
(* called with a point and the points of a finished session handed over    *)
(* by scheduleOnRN(onDrawEnd, points).                                     *)
(***************************************************************************)
DrawEndTolerances == {Int2Rat(0), Int2Rat(1), Int2Rat(100)}

\* the points a session hands over: none, one (without and with a
\* pressure), two closer than 0.1, and a stroke of three
DrawEndPoints ==
    SamplePointLists
    \cup {<<Pt(Int2Rat(3), Int2Rat(4), Num(Rat(1, 2)))>>,
          <<Pt(Int2Rat(0), Int2Rat(0), Absent), Pt(Rat(1, 20), Int2Rat(0), Absent)>>}

DInit ==
    /\ heap = <<(<<>>)>>
    /\ paths = 1
    /\ history = <<>>
    /\ currentIndex = -1
    /\ maxSize = MaxCanvasHistorySize
    /\ arg = NullRef
    /\ ret = NullRef
    /\ op = "new"
    /\ CanvasNew
    /\ simplifyPaths \in BOOLEAN
    /\ simplifyTolerance \in DrawEndTolerances
    /\ ZoomOff /\ ZoomNew /\ HookNew /\ EnvNew /\ FnNew

\* handleEnd: scheduleOnRN(onDrawEnd, points)
DScheduleEnd ==
    /\ Len(jsQueue) < MaxQueue
    /\ \E points \in DrawEndPoints : jsQueue' = Append(jsQueue, Call("onDrawEnd", <<points>>))
    /\ op' = "scheduleOnRN"
    /\ calls' = <<>>
    /\ UNCHANGED <<histVars, clientVars, canvasState, zoomVars, hookVars, envVars, fnVars>>

DNext ==
    \/ CDrawStart
    \/ DScheduleEnd
    \/ GRunOnRN
    \/ CRaf

SpecDrawEnd == DInit /\ [][DNext]_vars

(***************************************************************************)
(* C16: ending a session that accumulated exactly one point (x, y, p)      *)
(* commits a Path whose points are exactly [(x, y, p), (x+0.1, y+0.1, p)], *)
(* for every simplification setting and tolerance.  A point is compared by *)
(* what its three positions read: a pressure that is not there reads       *)
(* undefined.                                                              *)
(***************************************************************************)
C16_SinglePointBecomesDot ==
    [][(/\ jsQueue # <<>>
        /\ jsQueue' = Tail(jsQueue)
        /\ Head(jsQueue).fn = "onDrawEnd"
        /\ Len(Head(jsQueue).args[1]) = 1)
       => LET dot == Head(jsQueue).args[1][1]
              Read(q) == [q EXCEPT !.p = IF q.p.k = "absent" THEN Undefined ELSE q.p]
              before == heap[paths]
              after == heap'[paths']
              committed == after[Len(after)]
          IN  /\ Len(after) = Len(before) + 1
              /\ SubSeq(after, 1, Len(before)) = before
              /\ Len(committed.points) = 2
              /\ Read(committed.points[1]) = Read(dot)
              /\ Read(committed.points[2])
                    = Read(Pt(RAdd(dot.x, Rat(1, 10)), RAdd(dot.y, Rat(1, 10)), dot.p))]_vars

\* a dot committed although its two points are far closer than the tolerance
C16_Witness ==
    /\ op = "commit"
    /\ simplifyPaths
    /\ simplifyTolerance = Int2Rat(100)
    /\ heap[paths][1].points = <<Pt(Int2Rat(3), Int2Rat(4), Num(Rat(1, 2))),
                                 Pt(Rat(31, 10), Rat(41, 10), Num(Rat(1, 2)))>>

(***************************************************************************)
(* C17: ending a session with zero accumulated points commits nothing:     *)
(* the path collection and the history store are unchanged, no onDrawEnd   *)
(* or onPathComplete is delivered, and the session is no longer active.    *)
(***************************************************************************)
C17_EmptySessionCommitsNothing ==
    [][(/\ jsQueue # <<>>
        /\ jsQueue' = Tail(jsQueue)
        /\ Head(jsQueue).fn = "onDrawEnd"
        /\ Head(jsQueue).args[1] = <<>>)
       => /\ heap'[paths'] = heap[paths]
          /\ HistVals' = HistVals
          /\ currentIndex' = currentIndex
          /\ calls' = <<>>
          /\ ~isDrawingRef']_vars

\* an empty session has ended on a canvas whose handleDrawStart had run
C17_Witness ==
    /\ op = "drawEnd:empty"
    /\ currentPathPoints # <<>>
    /\ ~isDrawingRef
    /\ heap[paths] = <<>>

(***************************************************************************)
(* The canvas with zoom enabled under strokes, undo and redo, two-finger   *)
(* gestures and reset().                                                   *)
(***************************************************************************)
RInit ==
    /\ heap = <<(<<>>)>>
    /\ paths = 1
    /\ history = <<>>
    /\ currentIndex = -1
    /\ maxSize = MaxCanvasHistorySize
    /\ arg = NullRef
    /\ ret = NullRef
    /\ op = "new"
    /\ CanvasNew
    /\ simplifyPaths = TRUE
    /\ simplifyTolerance = Int2Rat(1)
    /\ enableZoom \in BOOLEAN
    /\ minScale = Rat(1, 2)
    /\ maxScale = Int2Rat(3)
    /\ ZoomNew /\ HookNew /\ EnvNew /\ FnNew

\* the zoom gestures are attached only with enableZoom
RTouch == enableZoom /\ VTouch
RPinchStart == enableZoom /\ VPinchStart
RPanStart == enableZoom /\ VPanStart
RLift == enableZoom /\ VLift

RNext ==
    \/ CDrawEnd
    \/ CUndo
    \/ CRedo
    \/ CReset
    \/ CRaf
    \/ RTouch
    \/ RPinchStart
    \/ RPanStart
    \/ RLift
    \/ VFrame

SpecReset == RInit /\ [][RNext]_vars

(***************************************************************************)
(* C20: after the canvas reset() the path collection is empty and the      *)
(* history store is empty, so undo() and redo() are both no-ops and no     *)
(* path committed before the reset can reappear through any later undo or  *)
(* redo (no array the canvas still holds contains a path); with zoom       *)
(* enabled the viewport targets scale 1 and translation (0,0) and the      *)
(* isPinching and isPanning flags are cleared.                             *)
(***************************************************************************)
C20_ResetEmptiesEverything ==
    [][/\ op' = "canvas.reset"
          => /\ heap'[paths'] = <<>>
             /\ history' = <<>>
             /\ currentIndex' = -1
             /\ \A a \in DOMAIN heap' : heap'[a] = <<>>
             /\ enableZoom
                => /\ scaleAnim' = <<[to |-> Int2Rat(1), left |-> AnimFrames]>>
                   /\ translationAnim' = <<[to |-> ZeroVec, left |-> AnimFrames]>>
                   /\ ~isPinching'
                   /\ ~isPanning'
       /\ (history = <<>> /\ op' \in UndoOps \cup RedoOps)
          => /\ heap'[paths'] = heap[paths]
             /\ history' = <<>>
             /\ currentIndex' = -1]_vars

\* reset() on a zoomed-in-use canvas that had committed a stroke, called
\* while a pinch is under way
C20_Witness ==
    /\ op = "canvas.reset"
    /\ enableZoom
    /\ nextId > 1
    /\ pinchHandler = "ACTIVE"
    /\ ~isPinching
    /\ history = <<>>
    /\ heap[paths] = <<>>

(***************************************************************************)
(* C21: constructing a history store with a negative maximum size fails    *)
(* at construction: no store with a negative maximum size is ever          *)
(* reachable, before or after a push, undo or redo.                        *)
(***************************************************************************)
C21_NoNegativeMaxSize == maxSize >= 0

(***************************************************************************)
(* C22: after any sequence of stroke commits, undo(n), redo(n), clear(),   *)
(* setPaths(list) and reset() on the canvas, whenever the history store is *)
(* non-empty the snapshot at its current index is value-equal to the live  *)
(* path collection.                                                        *)
(***************************************************************************)
C22_SnapshotMatchesLive ==
    (history # <<>> /\ currentIndex >= 0)
    => heap[history[currentIndex + 1]] = heap[paths]

(***************************************************************************)
(* C23: committing a finished stroke with at least one accepted point      *)
(* appends exactly one Path with completed = true at the end of the path   *)
(* collection, leaves every earlier Path unchanged and in the same order,  *)
(* and pushes exactly one history snapshot equal to the new collection.    *)
(* Stated for stores that retain at least one snapshot (maxSize >= 1).     *)
(***************************************************************************)
C23_CommitAppendsAndPushes ==
    [][(op' = "commit" /\ maxSize >= 1)
       => LET before == heap[paths]
              after == heap'[paths']
              kept == SubSeq(HistVals, 1, currentIndex + 1)
              stored == HistVals'
          IN  /\ Len(after) = Len(before) + 1
              /\ SubSeq(after, 1, Len(before)) = before
              /\ after[Len(after)].completed
              /\ Len(stored) >= 1
              /\ currentIndex' = Len(stored) - 1
              /\ SubSeq(stored, 1, Len(stored) - 1)
                   = (IF Len(kept) + 1 > maxSize THEN Tail(kept) ELSE kept)
              /\ stored[Len(stored)] = after]_vars

(***************************************************************************)
(* One finger only: the draw gesture without any second pointer, so that   *)
(* neither the pinch nor the pan handler ever begins.  A pointer session   *)
(* is the span from a touch-down to the release of that finger.            *)
(***************************************************************************)
\* one whole pointer session in one step: the finger lands (onBegin), moves
\* once (onUpdate) and lifts (onEnd, onFinalize); the React Native thread
\* runs nothing in between, so the calls scheduled by the session are the
\* ones the step adds to the queue
GSession ==
    /\ pointers = 0
    /\ drawHandler = "UNDETERMINED"
    /\ jsQueue = <<>>
    /\ \E pos \in DownPoints, to \in TouchPoints :
           LET h == Stopped(OnUpdate(OnBegin(TheHook, pos), to), "ACTIVE")
           IN  SetHook(h) /\ jsQueue' = h.queue
    /\ op' = "session" /\ UNCHANGED fnVars
    /\ calls' = <<>>
    /\ UNCHANGED <<pointers, drawHandler, pinchHandler, panHandler, now,
                   inputs, drawFrame>>

SNext ==
    \/ GPointerDown
    \/ GMove
    \/ GPointerUp
    \/ GSession
    \/ GRunOnRN
    \/ CRaf
    \/ VTick

SpecStrokes == GInit /\ [][SNext]_vars

\* the calls a step adds to the queue of the React Native thread
Scheduled == SubSeq(jsQueue', Len(jsQueue) + 1, Len(jsQueue'))

\* one onDrawStart, then onDrawUpdate calls, then at most one onDrawEnd
InSessionOrder(s) ==
    /\ s # <<>>
    /\ s[1].fn = "onDrawStart"
    /\ \A i \in 2..Len(s) :
           \/ s[i].fn = "onDrawUpdate"
           \/ s[i].fn = "onDrawEnd" /\ i = Len(s)

(***************************************************************************)
(* C24: the notifications of one pointer session are ordered: exactly one  *)
(* onDrawStart, then zero or more onDrawUpdate, then at most one           *)
(* onDrawEnd; a session whose start was not delivered (blocked by the      *)
(* cooldown or by an active pan or pinch) delivers no onDrawUpdate and no  *)
(* onDrawEnd, that is, nothing at all.                                     *)
(***************************************************************************)
C24_SessionNotificationsOrdered ==
    [][op' = "session"
       => (Scheduled = <<>> \/ InSessionOrder(Scheduled))]_vars

\* the points carried by the first n calls of s (onDrawStart and onDrawUpdate
\* carry one point each)
PointsOf(s, n) == [j \in 1..n |-> s[j].args[1]]

(***************************************************************************)
(* C25: every point of a stroke was produced by the pointer session that   *)
(* began it: the points a session commits (hands to onDrawEnd) are the     *)
(* point of its own onDrawStart followed by the points of its own          *)
(* onDrawUpdate calls, so a touch-down whose start was blocked never       *)
(* extends or commits what an earlier session left behind.                 *)
(***************************************************************************)
C25_StrokeFromOneSession ==
    [][op' = "session"
       => \A i \in 1..Len(Scheduled) :
              Scheduled[i].fn = "onDrawEnd"
              => Scheduled[i].args[1] = PointsOf(Scheduled, i - 1)]_vars

(***************************************************************************)
(* C26: with no pan or pinch ever begun (only one finger is ever used), so *)
(* that neither is active and none ended in the last 100 ms, every         *)
(* touch-down starts a draw session: onDrawStart is scheduled and the      *)
(* session accumulates the point of the touch-down, also when the previous *)
(* single-pointer stroke ended less than 100 ms ago.                       *)
(***************************************************************************)
C26_TouchDownStartsSession ==
    [][(op' = "pointerDown" /\ ~isPanning /\ ~isPinching)
       => /\ Scheduled # <<>>
          /\ Scheduled[1].fn = "onDrawStart"
          /\ isDrawing'
          /\ currentPath' = <<Scheduled[1].args[1]>>]_vars

(***************************************************************************)
(* C27: begin(point) while a draw session is already active is a no-op:    *)
(* a touch-down that finds isDrawing set leaves the accumulated points,    *)
(* lastPoint and isDrawing as they were and schedules no onDrawStart.      *)
(***************************************************************************)
C27_BeginWhileActiveIsNoOp ==
    [][(op' = "pointerDown" /\ isDrawing)
       => /\ currentPath' = currentPath
          /\ lastPoint' = lastPoint
          /\ isDrawing'
          /\ Scheduled = <<>>]_vars

(***************************************************************************)
(* C28: a two-finger pan update received while a pinch is active           *)
(* (isPinching set) leaves translation and scale, and any animation of     *)
(* them, unchanged and delivers no onTranslateChange.                      *)
(***************************************************************************)
C28_PanUpdateIgnoredDuringPinch ==
    [][(op' = "pan.onUpdate" /\ isPinching)
       => /\ translation' = translation
          /\ scale' = scale
          /\ translationAnim' = translationAnim
          /\ scaleAnim' = scaleAnim
          /\ calls' = <<>>]_vars

\* a pan update has arrived while both handlers were active and the pinch flag set
C28_Witness ==
    /\ op = "pan.onUpdate"
    /\ isPinching
    /\ pinchHandler = "ACTIVE"
    /\ panHandler = "ACTIVE"

(***************************************************************************)
(* The two-finger gestures when the fingers do not lift together: the      *)
(* pinch ends when the first finger lifts, the two-finger pan that was     *)
(* active stays active under the remaining finger and keeps updating       *)
(* until that finger lifts.                                                *)
(***************************************************************************)
\* the offsets a pan may have reached when the pinch ends
PanOffsetsAtPinchEnd == PanOffsets \cup {ZeroVec}

\* the first finger lifts while both handlers are active: pinchGesture.onEnd,
\* then the next panGesture.onUpdate, whose offset t is the very offset the
\* pan had when the pinch ended
\* (the last update of a behaviour: it closes the budget of inputs)
VPinchEndThenPan ==
    /\ pointers = 2
    /\ pinchHandler = "ACTIVE"
    /\ panHandler = "ACTIVE"
    /\ inputs <= MaxInputs
    /\ inputs' = MaxInputs + 1
    /\ pointers' = 1
    /\ pinchHandler' = "UNDETERMINED"
    /\ \E t \in PanOffsetsAtPinchEnd :
           LET newTranslation == Vec(RAdd(savedTranslation.x, t.x),
                                     RAdd(savedTranslation.y, t.y))
               notify == now - lastCallbackTime > CallbackThrottle
           IN  /\ isPinching' = FALSE
               /\ translation' = newTranslation
               /\ translationAnim' = <<>>
               /\ lastCallbackTime' = IF notify THEN now ELSE lastCallbackTime
               /\ calls' = <<Call("onScaleChange", <<scale>>),
                             Call("onTranslateChange", <<translation>>)>>
                           \o (IF notify
                               THEN <<Call("onTranslateChange", <<newTranslation>>)>>
                               ELSE <<>>)
    /\ op' = "pinch.onEnd;pan.onUpdate" /\ UNCHANGED fnVars
    /\ UNCHANGED <<scale, scaleAnim, savedScale, savedTranslation, pinchFocal,
                   pinchAnchor, lastValidFocal, lastScale, jumpDetectedTime,
                   consecutiveJumps, isPanning>>
    /\ UNCHANGED <<drawHandler, panHandler, now, outsideZoom>>

\* the remaining finger lifts: the pan handler ends if it was active
VLastLift ==
    /\ pointers = 1
    /\ pointers' = 0
    /\ ZoomOnEnd(FALSE, panHandler = "ACTIVE")
    /\ pinchHandler' = "UNDETERMINED"
    /\ panHandler' = "UNDETERMINED"
    /\ op' = "lift" /\ UNCHANGED fnVars
    /\ UNCHANGED <<drawHandler, now, inputs, outsideZoom>>

\* the focal points of an update that follows a focal jump: the same point,
\* points 10, 30 and 100 units away
RecoveryFocals == Focals \cup {Vec(Int2Rat(10), Int2Rat(0)), Vec(Int2Rat(30), Int2Rat(0))}

\* the recovery window after the last focal jump runs out while the pinch
\* handler is still active
VWindowElapses ==
    /\ pinchHandler = "ACTIVE"
    /\ consecutiveJumps > 0
    /\ now - jumpDetectedTime < JumpRecoveryMs
    /\ now' = jumpDetectedTime + JumpRecoveryMs
    /\ op' = "tick" /\ UNCHANGED fnVars
    /\ calls' = <<>>
    /\ UNCHANGED <<viewVars, pinchVars, flagVars, pointers, drawHandler, pinchHandler,
                   panHandler, inputs, outsideZoom>>

\* the pinch update that follows a focal jump (the last update of a
\* behaviour: it closes the budget of inputs)
VPinchUpdateAfterJump ==
    /\ pinchHandler = "ACTIVE"
    /\ consecutiveJumps > 0
    /\ inputs <= MaxInputs
    /\ inputs' = MaxInputs + 1
    /\ \E eScale \in PinchScales, focal \in RecoveryFocals : PinchOnUpdate(eScale, focal)
    /\ op' = "pinch.onUpdate" /\ UNCHANGED fnVars
    /\ UNCHANGED <<pointers, drawHandler, pinchHandler, panHandler, now, outsideZoom>>

PNext ==
    \/ VTouch
    \/ VPinchStart
    \/ VPinchUpdate
    \/ VPinchUpdateAfterJump
    \/ VWindowElapses
    \/ VPanStart
    \/ VPanUpdate
    \/ VPinchEndThenPan
    \/ VLift
    \/ VLastLift
    \/ VTick

\* the zoom ranges of the two-finger gestures: those of the viewport and one
\* whose minScale is the scale the canvas starts with
PinchRanges == ZoomRanges \cup {<<Int2Rat(1), Int2Rat(3)>>}

PInit ==
    /\ heap = <<(<<>>)>>
    /\ paths = 1
    /\ history = <<>>
    /\ currentIndex = -1
    /\ maxSize = MaxCanvasHistorySize
    /\ arg = NullRef
    /\ ret = NullRef
    /\ op = "new"
    /\ CanvasNew
    /\ simplifyPaths = TRUE
    /\ simplifyTolerance = Int2Rat(1)
    /\ enableZoom = TRUE
    /\ \E range \in PinchRanges : minScale = range[1] /\ maxScale = range[2]
    /\ ZoomNew /\ HookNew /\ EnvNew /\ FnNew

SpecPinchPan == PInit /\ [][PNext]_vars

(***************************************************************************)
(* C29: when the pinch ends while the two-finger pan is still active, the  *)
(* next pan update does not discard what the pinch did: a pan update whose *)
(* offset equals the offset at the moment the pinch ended leaves           *)
(* translation equal to the translation the pinch left.                    *)
(***************************************************************************)
C29_PanKeepsPinchResult ==
    [][op' = "pinch.onEnd;pan.onUpdate" => translation' = translation]_vars

(***************************************************************************)
(* C30: in a pinch update whose reported focal point is more than 40 units *)
(* (on either axis) from the last accepted focal point, while the scale    *)
(* factor is within 0.01 of the previous update's factor or the scale is   *)
(* pinned at minScale or at maxScale, translation is computed from the     *)
(* last accepted focal point and the last accepted focal point is left     *)
(* unchanged.                                                              *)
(***************************************************************************)
C30_FocalJumpRejected ==
    [][\A e \in PinchScales, f \in Focals :
          LET far == \/ RLt(Int2Rat(40), RAbs(RSub(f.x, lastValidFocal.x)))
                     \/ RLt(Int2Rat(40), RAbs(RSub(f.y, lastValidFocal.y)))
              steady == RLt(RAbs(RSub(e, lastScale)), Rat(1, 100))
              target == RMul(savedScale, e)
              pinned == \/ RLe(target, minScale) /\ scale = minScale
                        \/ RLe(maxScale, target) /\ scale = maxScale
          IN  (op' = "pinch.onUpdate" /\ PinchOnUpdate(e, f)
               /\ far /\ (steady \/ pinned))
              => /\ lastValidFocal' = lastValidFocal
                 /\ translation'
                      = Vec(RSub(lastValidFocal.x, RMul(pinchAnchor.x, scale')),
                            RSub(lastValidFocal.y, RMul(pinchAnchor.y, scale')))]_vars

\* the first update of a pinch was a focal jump under a changing scale factor
\* with the scale pinned at minScale
C30_Witness ==
    /\ op = "pinch.onUpdate"
    /\ inputs = 1
    /\ consecutiveJumps = 1
    /\ jumpDetectedTime = now
    /\ lastScale = Rat(1, 4)
    /\ scale = minScale

(***************************************************************************)
(* C31: for 200 ms after a focal jump was detected in a pinch, an update's *)
(* focal point becomes the last accepted focal point only if it is less    *)
(* than 20 units from it on both axes, and otherwise the last accepted     *)
(* focal point is kept and used; once an update has been accepted, or the  *)
(* window has run out and the update is not itself a jump, every focal     *)
(* point that is not a jump is accepted again.                             *)
(***************************************************************************)
C31_ConservativeAfterJump ==
    [][\A e \in PinchScales, f \in RecoveryFocals :
          LET dx == RAbs(RSub(f.x, lastValidFocal.x))
              dy == RAbs(RSub(f.y, lastValidFocal.y))
              small == RLt(dx, Int2Rat(20)) /\ RLt(dy, Int2Rat(20))
              far == RLt(Int2Rat(40), dx) \/ RLt(Int2Rat(40), dy)
              steady == RLt(RAbs(RSub(e, lastScale)), Rat(1, 100))
              target == RMul(savedScale, e)
              pinned == \/ RLe(target, minScale) /\ scale = minScale
                        \/ RLe(maxScale, target) /\ scale = maxScale
              isJump == far /\ (steady \/ pinned)
              inWindow == consecutiveJumps > 0 /\ now - jumpDetectedTime < 200
              used == lastValidFocal'
          IN  (op' = "pinch.onUpdate" /\ PinchOnUpdate(e, f))
              => /\ inWindow => used = (IF small THEN f ELSE lastValidFocal)
                 /\ (~inWindow /\ ~isJump) => used = f
                 /\ (used = f /\ ~isJump) => consecutiveJumps' = 0
                 /\ translation' = Vec(RSub(used.x, RMul(pinchAnchor.x, scale')),
                                       RSub(used.y, RMul(pinchAnchor.y, scale')))]_vars

\* inside the window an update 30 units away, which is no jump, was not accepted
C31_Witness ==
    /\ op = "pinch.onUpdate"
    /\ inputs = MaxInputs + 1
    /\ consecutiveJumps > 0
    /\ now - jumpDetectedTime < JumpRecoveryMs
    /\ now > jumpDetectedTime
    /\ lastScale = Int2Rat(2)
    /\ scale = Int2Rat(2)

(***************************************************************************)
(* C32: at the end of every pinch gesture onScaleChange and                *)
(* onTranslateChange are delivered with the scale and translation of that  *)
(* moment, and at the end of every pan gesture onTranslateChange with the  *)
(* translation of that moment, whatever the throttle; as the gestures      *)
(* write scale only during a pinch and translation only during a pinch or  *)
(* a pan, the last values notified equal the viewport once the fingers     *)
(* have lifted.                                                            *)
(***************************************************************************)
C32_FinalStateNotified ==
    [][/\ (op' = "lift" /\ pinchHandler = "ACTIVE")
          => /\ Len(calls') >= 2
             /\ calls'[1] = Call("onScaleChange", <<scale'>>)
             /\ calls'[2] = Call("onTranslateChange", <<translation'>>)
       /\ (op' = "lift" /\ panHandler = "ACTIVE")
          => /\ calls' # <<>>
             /\ calls'[Len(calls')] = Call("onTranslateChange", <<translation'>>)
       /\ op' = "pinch.onEnd;pan.onUpdate"
          => /\ Len(calls') >= 2
             /\ calls'[1] = Call("onScaleChange", <<scale'>>)
             /\ calls'[2] = Call("onTranslateChange", <<translation>>)
       /\ pinchHandler # "ACTIVE" => scale' = scale
       /\ (pinchHandler # "ACTIVE" /\ panHandler # "ACTIVE")
          => translation' = translation]_vars

\* both gestures have just ended, inside the throttle interval of the last
\* update, with a changed scale, and the three final calls were delivered
C32_Witness ==
    /\ op = "lift"
    /\ pointers = 0
    /\ Len(calls) = 3
    /\ now - lastCallbackTime <= CallbackThrottle
    /\ scale = Int2Rat(2)

(***************************************************************************)
(* Drawing under a changed viewport: between strokes the host sets the     *)
(* scale without animation (setScale(target, false, anchor)), with zoom    *)
(* enabled; with zoom disabled the zoom values are not passed to the draw  *)
(* gesture and the viewport stays as constructed.                          *)
(***************************************************************************)
ZInit ==
    /\ heap = <<(<<>>)>>
    /\ paths = 1
    /\ history = <<>>
    /\ currentIndex = -1
    /\ maxSize = MaxCanvasHistorySize
    /\ arg = NullRef
    /\ ret = NullRef
    /\ op = "new"
    /\ CanvasNew
    /\ simplifyPaths = TRUE
    /\ simplifyTolerance = Int2Rat(1)
    /\ enableZoom \in BOOLEAN
    /\ minScale = Rat(1, 2)
    /\ maxScale = Int2Rat(3)
    /\ ZoomNew /\ HookNew /\ EnvNew /\ FnNew

\* setScale(target, false, anchor) while no finger is down and no session is
\* open, so that the points of one session lie under one viewport and their
\* distances have exact square roots
ZSetScale ==
    /\ enableZoom
    /\ pointers = 0
    /\ ~isDrawing
    /\ inputs < MaxInputs
    /\ inputs' = inputs + 1
    /\ \E target \in ZoomTargets, anchor \in {<<>>, <<ZeroVec>>} :
           ZoomSetScale(target, FALSE, anchor) /\ op' = SetScaleOp(target)
    /\ UNCHANGED fnVars
    /\ UNCHANGED <<pointers, drawHandler, pinchHandler, panHandler, now, outsideZoom>>

\* the React Native thread hands the oldest scheduled call to the host of
\* the draw gesture alone (useDrawingGesture without the canvas behind it)
ZDeliver ==
    /\ jsQueue # <<>>
    /\ jsQueue' = Tail(jsQueue)
    /\ calls' = <<Head(jsQueue)>>
    /\ op' = "deliver" /\ UNCHANGED fnVars
    /\ UNCHANGED <<histVars, clientVars, canvasState, zoomVars, hookVars, envVars>>

ZNext ==
    \/ ZSetScale
    \/ GPointerDown
    \/ GMove
    \/ GPointerUp
    \/ ZDeliver
    \/ VTick

SpecZoomedDraw == ZInit /\ [][ZNext]_vars

\* point p is the world point under the screen point pos in the viewport
\* (t, s): p = (pos - t) / s, and p * s + t gives pos back
UnderScreenPoint(p, pos, t, s) ==
    /\ p.x = RDiv(RSub(pos.x, t.x), s)
    /\ p.y = RDiv(RSub(pos.y, t.y), s)
    /\ RAdd(RMul(p.x, s), t.x) = pos.x
    /\ RAdd(RMul(p.y, s), t.y) = pos.y

(***************************************************************************)
(* C33: the point accumulated at begin (touch-down) and at extend (move)   *)
(* is (screen - translation) / scale for the scale and translation current *)
(* at that event, so that world * scale + translation is the touched       *)
(* screen point; with zoom disabled it is the screen point itself.         *)
(***************************************************************************)
C33_PointsInWorldSpace ==
    [][/\ \A pos \in DownPoints :
              (op' = "pointerDown" /\ SetHook(OnBegin(TheHook, pos)) /\ Scheduled # <<>>)
              => LET p == currentPath'[1]
                 IN  /\ currentPath' = <<p>>
                     /\ Scheduled[1].args[1] = p
                     /\ IF enableZoom THEN UnderScreenPoint(p, pos, translation, scale)
                        ELSE p.x = pos.x /\ p.y = pos.y
       /\ \A pos \in TouchPoints :
              (op' = "move" /\ SetHook(OnUpdate(TheHook, pos)) /\ Scheduled # <<>>)
              => LET p == currentPath'[Len(currentPath')]
                 IN  /\ currentPath' = Append(currentPath, p)
                     /\ Scheduled[1].args[1] = p
                     /\ IF enableZoom THEN UnderScreenPoint(p, pos, translation, scale)
                        ELSE p.x = pos.x /\ p.y = pos.y]_vars

\* a point was accumulated by a move under a viewport with scale 5/2 and a
\* translation away from the origin
C33_Witness ==
    /\ op = "move"
    /\ enableZoom
    /\ scale = Rat(5, 2)
    /\ translation # ZeroVec
    /\ Len(currentPath) = 2
    /\ currentPath[2].x = RDiv(RSub(Int2Rat(3), translation.x), scale)

(***************************************************************************)
(* The zoom hook under programmatic calls only: animated setZoom and       *)
(* reset, the frames of their animations, and setScale without animation,  *)
(* which may also arrive while an animation is running.                    *)
(***************************************************************************)
\* the anchors of setScale: none (the canvas centre) or the origin
SetScaleAnchors == {<<>>, <<ZeroVec>>}

\* setScale(target, false, anchor) as the last call of a behaviour (it
\* closes the budget of inputs)
VSetScaleLast ==
    /\ inputs <= MaxInputs
    /\ inputs' = MaxInputs + 1
    /\ \E target \in ZoomTargets, anchor \in SetScaleAnchors :
           ZoomSetScale(target, FALSE, anchor) /\ op' = SetScaleOp(target)
    /\ UNCHANGED fnVars
    /\ UNCHANGED <<pointers, drawHandler, pinchHandler, panHandler, now, outsideZoom>>

SSNext ==
    \/ VSetScale
    \/ VSetScaleLast
    \/ VSetZoom
    \/ VReset
    \/ VFrame
    \/ VTick

SpecSetScale == VInit /\ [][SSNext]_vars

(***************************************************************************)
(* C34: setScale(target, false, anchor) keeps the anchor fixed: with A the *)
(* given anchor, else the canvas centre, and w = (A - translation) / scale *)
(* before the call, after the call scale' is target clamped to             *)
(* [minScale, maxScale] and w * scale' + translation' = A.                 *)
(***************************************************************************)
C34_SetScaleKeepsAnchor ==
    [][\A target \in ZoomTargets, anchor \in SetScaleAnchors :
          LET A == IF anchor # <<>> THEN anchor[1]
                   ELSE Vec(Rat(ScreenWidth, 2), Rat(ScreenHeight, 2))
              w == Vec(RDiv(RSub(A.x, translation.x), scale),
                       RDiv(RSub(A.y, translation.y), scale))
              clamped == IF RLt(target, minScale) THEN minScale
                         ELSE IF RLt(maxScale, target) THEN maxScale
                         ELSE target
          IN  (op' = SetScaleOp(target) /\ ZoomSetScale(target, FALSE, anchor))
              => /\ scale' = clamped
                 /\ RAdd(RMul(w.x, scale'), translation'.x) = A.x
                 /\ RAdd(RMul(w.y, scale'), translation'.y) = A.y]_vars

\* a setScale to 5/2 about the origin has acted on a viewport that an earlier
\* call had scaled to 1/2 about the canvas centre
C34_Witness ==
    /\ op = SetScaleOp(Rat(5, 2))
    /\ inputs = MaxInputs + 1
    /\ scale = Rat(5, 2)
    /\ translation = Vec(Int2Rat(500), Int2Rat(1000))

(***************************************************************************)
(* The canvas handle with collections made by commits only: strokes are    *)
(* committed, undone and redone, and the canvas is cleared.                *)
(***************************************************************************)
\* clear() followed at once by undo(1)
CanvasClearThenUndo ==
    LET d == UndoSteps(ClearDoc(TheDoc, maxSize), 1)
    IN  /\ calls' = <<>>
        /\ Settle(StoreOf(d), d.paths, arg, d.ret, "canvas.clear;undo1")
        /\ UNCHANGED <<isDrawingRef, currentPathPoints, currentPathShared, rafPending,
                       nextId, configVars>>

CClearThenUndo == CanvasClearThenUndo /\ UNCHANGED outsideCanvas

KNext ==
    \/ CDrawEnd
    \/ CRaf
    \/ CUndo
    \/ CRedo
    \/ CClear
    \/ CClearThenUndo

SpecClear == CInit /\ [][KNext]_vars

(***************************************************************************)
(* C35: clear() records the empty collection as a new history snapshot, so *)
(* clear() followed at once by undo(1) restores the path collection that   *)
(* existed just before the clear, for every non-empty collection reached   *)
(* by commits.                                                             *)
(***************************************************************************)
C35_UndoAfterClearRestores ==
    [][(op' = "canvas.clear;undo1" /\ heap[paths] # <<>>)
       => heap'[paths'] = heap[paths]]_vars

C37_PreviewKeptDuringSession ==
    [][(/\ isDrawingRef
        /\ Len(currentPathPoints) >= 2
        /\ currentPathShared # ""
        /\ isDrawingRef') => currentPathShared' # ""]_vars

(***************************************************************************)
(* The velocity helpers of svg.ts.                                         *)
(***************************************************************************)
\* getVelocity(p1, p2, deltaTime): distance / Math.max(deltaTime, 1)
GetVelocity(p1, p2, deltaTime) ==
    LET dx == RSub(p2.x, p1.x)
        dy == RSub(p2.y, p1.y)
        distance == RSqrt(RAdd(RMul(dx, dx), RMul(dy, dy)))
    IN  RDiv(distance, Int2Rat(IF deltaTime > 1 THEN deltaTime ELSE 1))

\* velocityToPressure(velocity, min, max)
VelocityToPressure(velocity, min, max) ==
    LET normalized == RMin(Int2Rat(1), RDiv(velocity, Int2Rat(100)))
    IN  RSub(max, RMul(normalized, RSub(max, min)))

(***************************************************************************)
(* C38: when a move accepts a point and no pressure was supplied, the      *)
(* pressure stored with the point is max - min(1, v/100) * (max - min)     *)
(* with v = distance / max(deltaTime, 1 ms), min = 0.2 and max = 1, the    *)
(* distance and the time being those since the previous point; it lies in  *)
(* [0.2, 1].                                                               *)
(***************************************************************************)
C38_PressureFromVelocity ==
    [][\A pos \in TouchPoints :
          (/\ op' = "move"
           /\ SetHook(OnUpdate(TheHook, pos))
           /\ Len(currentPath') = Len(currentPath) + 1)
          => LET stored == currentPath'[Len(currentPath')]
                 v == GetVelocity(lastPoint[1], stored, now - lastTime)
             IN  /\ stored.p = Num(VelocityToPressure(v, Rat(1, 5), Int2Rat(1)))
                 /\ RLe(Rat(1, 5), stored.p.v)
                 /\ RLe(stored.p.v, Int2Rat(1))]_vars

\* s is t with some elements left out, the others in their order
RECURSIVE IsSubsequence(_, _)
IsSubsequence(s, t) ==
    IF s = <<>> THEN TRUE
    ELSE IF t = <<>> THEN FALSE
    ELSE IF Head(s) = Head(t) THEN IsSubsequence(Tail(s), Tail(t))
    ELSE IsSubsequence(s, Tail(t))

(***************************************************************************)
(* C39: simplifyPath is idempotent: for every point sequence P and         *)
(* tolerance tol, simplifyPath(simplifyPath(P, tol), tol) equals           *)
(* simplifyPath(P, tol), and the result is an order-preserving subsequence *)
(* of P.                                                                   *)
(***************************************************************************)
C39_SimplifyIdempotent ==
    [][/\ op' = "simplifyPath" => IsSubsequence(fnOut', fnIn.args[1])
       /\ op' = "simplifyPath;simplifyPath"
          => /\ fnOut' = fnOut
             /\ IsSubsequence(fnOut', fnIn.args[1])]_vars

\* [(0,0),(5,5),(10,10),(0,0)] with tolerance 8 lost (5,5) in the first
\* pass and nothing in the second
C39_Witness ==
    /\ op = "simplifyPath;simplifyPath"
    /\ fnIn.args = <<(<<Pt(Int2Rat(0), Int2Rat(0), Absent),
                        Pt(Int2Rat(5), Int2Rat(5), Absent),
                        Pt(Int2Rat(10), Int2Rat(10), Num(Rat(1, 2))),
                        Pt(Int2Rat(0), Int2Rat(0), Absent)>>), Int2Rat(8)>>
    /\ fnOut = <<Pt(Int2Rat(0), Int2Rat(0), Absent),
                 Pt(Int2Rat(10), Int2Rat(10), Num(Rat(1, 2))),
                 Pt(Int2Rat(0), Int2Rat(0), Absent)>>

====
